---------------------------- MODULE Spec2Model ----------------------------
(***************************************************************************)
(* process-pastry: a config manager that edits an environment file over    *)
(* HTTP and restarts one managed child process.                            *)
(*                                                                         *)
(* The module models                                                       *)
(*   - the Config Store (readEnv / writeEnv of config-handler.ts) on texts *)
(*     that are sequences of one-character strings,                        *)
(*   - the Process Lifecycle Manager (ProcessManager of process-manager.ts)*)
(*     with its await points as separate steps,                            *)
(*   - the control-plane handlers POST / PATCH / GET of server.ts.         *)
(***************************************************************************)
EXTENDS Integers, Sequences, FiniteSets, TLC

-----------------------------------------------------------------------------
(* Texts.  A text is a sequence of one-character strings.                  *)

\* The characters String.prototype.trim() removes, among those of the model.
Whitespace == {" ", "\t", "\n"}

\* What indexing a string out of range yields (undefined): no character.
Undefined == "undefined"

\* s[i] of JavaScript, 0-based.
charAt(s, i) == IF i >= 0 /\ i < Len(s) THEN s[i + 1] ELSE Undefined

\* s.substring(a, b) for 0 <= a, 0-based, end exclusive.
substring(s, a, b) == IF b <= a THEN << >> ELSE SubSeq(s, a + 1, b)

\* s.substring(a): to the end.
substringFrom(s, a) == substring(s, a, Len(s))

RECURSIVE indexFrom(_, _, _)
indexFrom(s, c, i) ==
    IF i >= Len(s) THEN -1
    ELSE IF s[i + 1] = c THEN i
    ELSE indexFrom(s, c, i + 1)

\* s.indexOf(c): 0-based index of the first c, or -1.
indexOf(s, c) == indexFrom(s, c, 0)

\* s.includes(c)
includes(s, c) == indexOf(s, c) # -1

RECURSIVE trimStart(_)
trimStart(s) ==
    IF s # << >> /\ Head(s) \in Whitespace THEN trimStart(Tail(s)) ELSE s

RECURSIVE trimEnd(_)
trimEnd(s) ==
    IF s # << >> /\ s[Len(s)] \in Whitespace
    THEN trimEnd(SubSeq(s, 1, Len(s) - 1))
    ELSE s

\* s.trim()
trim(s) == trimEnd(trimStart(s))

RECURSIVE splitFrom(_, _, _)
splitFrom(s, cur, i) ==
    IF i > Len(s) THEN << cur >>
    ELSE IF s[i] = "\n" THEN << cur >> \o splitFrom(s, << >>, i + 1)
    ELSE splitFrom(s, Append(cur, s[i]), i + 1)

\* s.split("\n")
splitLines(s) == splitFrom(s, << >>, 1)

RECURSIVE joinLines(_)
\* lines.join("\n")
joinLines(lines) ==
    IF lines = << >> THEN << >>
    ELSE IF Len(lines) = 1 THEN lines[1]
    ELSE lines[1] \o << "\n" >> \o joinLines(Tail(lines))

QuoteChars == {"\"", "'"}

\* value.replace(/^["']|["']$/g, ""): a quote character at the start is
\* removed, and a quote character at the end of what is left is removed;
\* the two need not match and nothing is unescaped.
unquote(value) ==
    LET a == IF value # << >> /\ Head(value) \in QuoteChars
             THEN Tail(value) ELSE value
    IN  IF a # << >> /\ a[Len(a)] \in QuoteChars
        THEN SubSeq(a, 1, Len(a) - 1)
        ELSE a

RECURSIVE escapeQuotes(_)
\* value.replace(/"/g, '\\"')
escapeQuotes(value) ==
    IF value = << >> THEN << >>
    ELSE IF Head(value) = "\""
         THEN << "\\", "\"" >> \o escapeQuotes(Tail(value))
         ELSE << Head(value) >> \o escapeQuotes(Tail(value))

-----------------------------------------------------------------------------
(* Config maps.  A Record<string, string> is a sequence of <<key, value>>  *)
(* pairs with distinct keys, in insertion order.                           *)

RECURSIVE keyIndex(_, _, _)
keyIndex(config, key, i) ==
    IF i > Len(config) THEN 0
    ELSE IF config[i][1] = key THEN i
    ELSE keyIndex(config, key, i + 1)

\* config[key] = value
assign(config, key, value) ==
    LET i == keyIndex(config, key, 1)
    IN  IF i = 0 THEN Append(config, << key, value >>)
        ELSE [config EXCEPT ![i] = << key, value >>]

RECURSIVE spread(_, _)
\* { ...a, ...b }
spread(a, b) ==
    IF b = << >> THEN a
    ELSE spread(assign(a, b[1][1], b[1][2]), Tail(b))

\* Object.keys(config)
keysOf(config) == [i \in DOMAIN config |-> config[i][1]]

\* The entries of a map as a set: two maps are equal as maps when these are.
entries(config) == {config[i] : i \in DOMAIN config}

keySet(config) == {config[i][1] : i \in DOMAIN config}

\* config[key] for a key of the map
valueOf(config, key) == config[keyIndex(config, key, 1)][2]

-----------------------------------------------------------------------------
(* Config Store: readEnv and writeEnv.                                     *)

\* The line callback without the test of the characters around the "=".
readLineNoSpaceCheck(config, line) ==
    LET trimmed == trim(line)
        equalIndex == indexOf(trimmed, "=")
        key == trim(substring(trimmed, 0, equalIndex))
        value == trim(substringFrom(trimmed, equalIndex + 1))
        unquotedValue == unquote(value)
    IN  IF trimmed = << >> \/ Head(trimmed) = "#" THEN config
        ELSE IF equalIndex = -1 THEN config
        ELSE IF key # << >> THEN assign(config, key, unquotedValue)
        ELSE config

\* A line callback that takes the value to end at the next "=".
readLineSplit(config, line) ==
    LET trimmed == trim(line)
        equalIndex == indexOf(trimmed, "=")
        charBefore == charAt(trimmed, equalIndex - 1)
        charAfter == charAt(trimmed, equalIndex + 1)
        key == trim(substring(trimmed, 0, equalIndex))
        rest == substringFrom(trimmed, equalIndex + 1)
        value == trim(IF includes(rest, "=")
                      THEN substring(rest, 0, indexOf(rest, "="))
                      ELSE rest)
        unquotedValue == unquote(value)
    IN  IF trimmed = << >> \/ Head(trimmed) = "#" THEN config
        ELSE IF equalIndex = -1 THEN config
        ELSE IF charBefore = " " \/ charAfter = " " THEN config
        ELSE IF key # << >> THEN assign(config, key, unquotedValue)
        ELSE config

\* One line of readEnv's forEach: the config after the line.
readLine(config, line) ==
    LET trimmed == trim(line)
        equalIndex == indexOf(trimmed, "=")
        charBefore == charAt(trimmed, equalIndex - 1)
        charAfter == charAt(trimmed, equalIndex + 1)
        key == trim(substring(trimmed, 0, equalIndex))
        value == trim(substringFrom(trimmed, equalIndex + 1))
        unquotedValue == unquote(value)
    IN  IF trimmed = << >> \/ Head(trimmed) = "#" THEN config
        ELSE IF equalIndex = -1 THEN config
        ELSE IF charBefore = " " \/ charAfter = " " THEN config
        ELSE IF key # << >> THEN assign(config, key, unquotedValue)
        ELSE config

RECURSIVE readLines(_, _)
readLines(config, lines) ==
    IF lines = << >> THEN config
    ELSE readLines(readLine(config, Head(lines)), Tail(lines))

\* readEnv on the content of an existing file
decode(content) == readLines(<< >>, splitLines(content))

\* A file is [exists, content].
NoFile == [exists |-> FALSE, content |-> << >>]
FileOf(content) == [exists |-> TRUE, content |-> content]

readEnv(file) == IF ~file.exists THEN << >> ELSE decode(file.content)

\* The test for quotes without the "#".
needsQuotesNoHash(value) ==
    includes(value, " ") \/ includes(value, "=")

needsQuotes(value) ==
    includes(value, " ") \/ includes(value, "=") \/ includes(value, "#")

escapedValue(value) ==
    IF needsQuotes(value)
    THEN << "\"" >> \o escapeQuotes(value) \o << "\"" >>
    ELSE value

encodeEntry(e) == e[1] \o << "=" >> \o escapedValue(e[2])

\* The content writeEnv writes for a config.
encode(config) == joinLines([i \in DOMAIN config |-> encodeEntry(config[i])])

writeEnv(config) == FileOf(encode(config))

-----------------------------------------------------------------------------
(* The schema of the example file: readEnvExample.                         *)

UpperChars == {"A", "B", "H", "K", "L", "M", "_"}

DigitChars == {"0", "1", "2", "7"}

\* /^[A-Z_][A-Z0-9_]*$/.test(s)
isIdentifier(s) ==
    /\ s # << >>
    /\ s[1] \in UpperChars
    /\ \A k \in DOMAIN s : s[k] \in UpperChars \cup DigitChars

\* What an absent property is read as: no text.
orUndefined(text) == [null |-> text = << >>, text |-> text]

\* An EnvVariableSchema.
SchemaEntry(currentComments, defaultValue, commented) ==
    [description |-> joinLines(currentComments),
     defaultValue |-> orUndefined(defaultValue),
     commented |-> commented]

\* A turn of the loop that leaves the pending comments in place after a
\* commented-out name without a value.
schemaLineKeepsComments(st, line) ==
    LET trimmed == trim(line)
        afterHash == trim(substringFrom(trimmed, 1))
        hashIndex == indexOf(afterHash, "=")
        hashKey == trim(substring(afterHash, 0, hashIndex))
        hashValue == unquote(trim(substringFrom(afterHash, hashIndex + 1)))
        equalIndex == indexOf(trimmed, "=")
        key == trim(substring(trimmed, 0, equalIndex))
        unquotedValue == unquote(trim(substringFrom(trimmed, equalIndex + 1)))
        push == IF afterHash # << >>
                THEN [st EXCEPT !.currentComments = Append(@, afterHash)]
                ELSE st
    IN  IF line = << >> THEN st
        ELSE IF trimmed = << >> THEN [st EXCEPT !.currentComments = << >>]
        ELSE IF Head(trimmed) = "#"
        THEN IF hashIndex # -1
             THEN IF \/ charAt(afterHash, hashIndex - 1) = " "
                     \/ charAt(afterHash, hashIndex + 1) = " "
                  THEN push
                  ELSE [schema |->
                          IF hashKey # << >>
                          THEN assign(st.schema, hashKey,
                                      SchemaEntry(st.currentComments,
                                                  hashValue, TRUE))
                          ELSE st.schema,
                        currentComments |-> << >>]
             ELSE IF isIdentifier(afterHash)
             THEN [schema |-> assign(st.schema, afterHash,
                                     SchemaEntry(st.currentComments,
                                                 << >>, TRUE)),
                   currentComments |-> st.currentComments]
             ELSE push
        ELSE IF equalIndex # -1
        THEN IF \/ charAt(trimmed, equalIndex - 1) = " "
                \/ charAt(trimmed, equalIndex + 1) = " "
             THEN [st EXCEPT !.currentComments = << >>]
             ELSE [schema |->
                     IF key # << >>
                     THEN assign(st.schema, key,
                                 SchemaEntry(st.currentComments,
                                             unquotedValue, FALSE))
                     ELSE st.schema,
                   currentComments |-> << >>]
        ELSE [st EXCEPT !.currentComments = << >>]

\* A turn of the loop that takes a line that is not a comment and has an
\* "=" as a declaration, whatever stands next to the "=".
schemaLineNoSpaceTest(st, line) ==
    LET trimmed == trim(line)
        afterHash == trim(substringFrom(trimmed, 1))
        hashIndex == indexOf(afterHash, "=")
        hashKey == trim(substring(afterHash, 0, hashIndex))
        hashValue == unquote(trim(substringFrom(afterHash, hashIndex + 1)))
        equalIndex == indexOf(trimmed, "=")
        key == trim(substring(trimmed, 0, equalIndex))
        unquotedValue == unquote(trim(substringFrom(trimmed, equalIndex + 1)))
        push == IF afterHash # << >>
                THEN [st EXCEPT !.currentComments = Append(@, afterHash)]
                ELSE st
    IN  IF line = << >> THEN st
        ELSE IF trimmed = << >> THEN [st EXCEPT !.currentComments = << >>]
        ELSE IF Head(trimmed) = "#"
        THEN IF hashIndex # -1
             THEN IF \/ charAt(afterHash, hashIndex - 1) = " "
                     \/ charAt(afterHash, hashIndex + 1) = " "
                  THEN push
                  ELSE [schema |->
                          IF hashKey # << >>
                          THEN assign(st.schema, hashKey,
                                      SchemaEntry(st.currentComments,
                                                  hashValue, TRUE))
                          ELSE st.schema,
                        currentComments |-> << >>]
             ELSE IF isIdentifier(afterHash)
             THEN [schema |-> assign(st.schema, afterHash,
                                     SchemaEntry(st.currentComments,
                                                 << >>, TRUE)),
                   currentComments |-> << >>]
             ELSE push
        ELSE IF equalIndex # -1
        THEN IF FALSE
             THEN [st EXCEPT !.currentComments = << >>]
             ELSE [schema |->
                     IF key # << >>
                     THEN assign(st.schema, key,
                                 SchemaEntry(st.currentComments,
                                             unquotedValue, FALSE))
                     ELSE st.schema,
                   currentComments |-> << >>]
        ELSE [st EXCEPT !.currentComments = << >>]

\* One turn of the while loop of readEnvExample, on the line at hand: the
\* schema and the pending comments after it.
schemaLine(st, line) ==
    LET trimmed == trim(line)
        afterHash == trim(substringFrom(trimmed, 1))
        hashIndex == indexOf(afterHash, "=")
        hashKey == trim(substring(afterHash, 0, hashIndex))
        hashValue == unquote(trim(substringFrom(afterHash, hashIndex + 1)))
        equalIndex == indexOf(trimmed, "=")
        key == trim(substring(trimmed, 0, equalIndex))
        unquotedValue == unquote(trim(substringFrom(trimmed, equalIndex + 1)))
        push == IF afterHash # << >>
                THEN [st EXCEPT !.currentComments = Append(@, afterHash)]
                ELSE st
    IN  IF line = << >> THEN st
        ELSE IF trimmed = << >> THEN [st EXCEPT !.currentComments = << >>]
        ELSE IF Head(trimmed) = "#"
        THEN IF hashIndex # -1
             THEN IF \/ charAt(afterHash, hashIndex - 1) = " "
                     \/ charAt(afterHash, hashIndex + 1) = " "
                  THEN push
                  ELSE [schema |->
                          IF hashKey # << >>
                          THEN assign(st.schema, hashKey,
                                      SchemaEntry(st.currentComments,
                                                  hashValue, TRUE))
                          ELSE st.schema,
                        currentComments |-> << >>]
             ELSE IF isIdentifier(afterHash)
             THEN [schema |-> assign(st.schema, afterHash,
                                     SchemaEntry(st.currentComments,
                                                 << >>, TRUE)),
                   currentComments |-> << >>]
             ELSE push
        ELSE IF equalIndex # -1
        THEN IF \/ charAt(trimmed, equalIndex - 1) = " "
                \/ charAt(trimmed, equalIndex + 1) = " "
             THEN [st EXCEPT !.currentComments = << >>]
             ELSE [schema |->
                     IF key # << >>
                     THEN assign(st.schema, key,
                                 SchemaEntry(st.currentComments,
                                             unquotedValue, FALSE))
                     ELSE st.schema,
                   currentComments |-> << >>]
        ELSE [st EXCEPT !.currentComments = << >>]

-----------------------------------------------------------------------------
(* Bounds of the model.                                                    *)

\* Child processes spawned in one run, the initial one included.
MaxPid == 3
\* Control-plane requests accepted in one run.
MaxReq == 2
\* Chunks one child writes to its error stream.
MaxChunks == 1
\* Request handlers that can be suspended at the same time.
MaxInFlight == 2
\* Characters in a value, and entries in a map, taken through the codec.
MaxValueLen == 2
MaxEntries == 2

-----------------------------------------------------------------------------
(* State.                                                                  *)

VARIABLES
    envFile,       \* the environment file at envPath: [exists, content]
    childProcess,  \* ProcessManager.childProcess: a pid, or Null
    lastError,     \* ProcessManager.lastError: the notes appended so far
    procs,         \* the children spawned so far; procs[pid] is one child
    reqs,          \* the POST / PATCH handlers, by slot, with their position
    served,        \* requests accepted so far
    codec,         \* a config map taken through writeEnv and readEnv
    ui             \* the state object of the default UI (ui/state.js)

vars ==
    << envFile, childProcess, lastError, procs, reqs, served, codec, ui >>

\* this.childProcess = null; no child has pid 0.
Null == 0

\* exitCode === null: the code of a child that has not exited, or that a
\* signal ended.
NoCode == -1

\* The exit codes a child ends with: 0, a failure code, or none (a signal).
ExitCodes == {0, 7, NoCode}

Slots == 1 .. MaxInFlight

\* One-character texts used as keys and values.
T(c) == << c >>

\* process.env of the manager itself.
ProcessEnv == << << T("H"), T("h") >>, << T("A"), T("0") >> >>

\* The environment file the operator left before the server starts.
InitFiles == { FileOf(<< "A", "=", "1", "\n", "B", "=", "2" >>) }

\* The request bodies: maps of strings.
Bodies ==
    { << << T("B"), T("3") >> >>,
      << << T("C"), T("\"") >> >> }

\* lastError as text: the notes, each a piece of the string.
StderrNote(pid) == [type |-> "stderr", pid |-> pid, code |-> NoCode]
ExitNote(pid, code) == [type |-> "exit", pid |-> pid, code |-> code]
SpawnNote == [type |-> "spawn", pid |-> Null, code |-> NoCode]
RequestNote == [type |-> "request", pid |-> Null, code |-> NoCode]

\* A string or null: `text || null`.
orNull(text) == [null |-> text = << >>, text |-> text]

\* A child: where it is between running and its exit watcher having run,
\* its exit code, the environment it was spawned with, the signals sent to
\* it, and the stderr chunks it wrote and the drain loop read; the same for
\* its stdout; where each drain loop is ("open", or ended at "eos" or by a
\* "failed" read); and how many of its chunks the manager has written to its
\* own stderr and stdout.
NewProc(env) ==
    [state |-> "alive", code |-> NoCode, env |-> env,
     term |-> FALSE, kill |-> FALSE, written |-> 0, read |-> 0,
     outWritten |-> 0, outRead |-> 0,
     stderrReader |-> "open", stdoutReader |-> "open",
     toStderr |-> 0, toStdout |-> 0]

\* A child that has ended: its environment and the signals pending at it
\* are gone with it; its exit code stays until its exit watcher has run, and
\* what it wrote to its pipe until the drain loop has read it.
Ended(p, state, code) ==
    [state |-> state, code |-> code, env |-> << >>,
     term |-> FALSE, kill |-> FALSE,
     written |-> p.written - p.read, read |-> 0,
     outWritten |-> p.outWritten - p.outRead, outRead |-> 0,
     stderrReader |-> p.stderrReader, stdoutReader |-> p.stdoutReader,
     toStderr |-> p.toStderr, toStdout |-> p.toStdout]

\* childProcess.exitCode as the runtime shows it: null until the exit has
\* been collected.
exitCode(p) == IF p.state = "reaped" THEN p.code ELSE NoCode

\* process.kill(pid, 0) throws ESRCH: the process has been collected.
probeThrows(p) == p.state \in {"reaped", "done"}

NoResp ==
    [success |-> FALSE, error |-> orNull(<< >>), restarted |-> FALSE,
     updated |-> << >>, status |-> 0]

\* The body of a response to GET status, before there is one.
NoStatus == [running |-> FALSE, lastError |-> orNull(<< >>), pid |-> Null]

\* A handler: where it is suspended (pc), its request (method; kind and
\* body: what the payload is and its entries; skip: the header
\* X-Restart-Process is "false"; creds: it carries the Authorization header
\* of the configured user), the pid local to its kill() call, and its
\* response once it has one (out: the body of a response to GET status).  The other fields record what
\* happened, for the properties: the file it wrote (NoFile: none), the
\* handle when its start() was called (old), how its kill() returned (via),
\* the child it spawned (new), whether the spawn threw, and the exit code
\* the exit watcher of that child found while the handler was suspended.
\* The server options that decide where a request goes: htmlRoute, whether
\* the default UI with its assets is served (no htmlContent), and whether
\* proxyPort is set.
NoOptions == [htmlRoute |-> << "/" >>, defaultUI |-> TRUE, proxyPort |-> FALSE]

Idle ==
    [pc |-> "idle", method |-> "", kind |-> "", body |-> << >>,
     skip |-> FALSE, creds |-> TRUE,
     pid |-> Null, resp |-> NoResp, out |-> NoStatus,
     wrote |-> NoFile, old |-> Null, via |-> "none", new |-> Null,
     spawnFailed |-> FALSE, exited |-> NoCode,
     pathname |-> << >>, options |-> NoOptions, upstream |-> Null]

\* A map on its way through the codec: the map, the file writeEnv made of
\* it, the map readEnv made of that file.
NoArgs == [exampleEnvPath |-> FALSE, envPath |-> FALSE, readable |-> TRUE]

NoCodec ==
    [step |-> "off", m |-> << >>, line |-> << >>, file |-> NoFile,
     out |-> << >>, args |-> NoArgs, lines |-> << >>, i |-> 0,
     currentComments |-> << >>, schema |-> << >>]

\* The characters of the values taken through the codec.
Alphabet == {"a", " ", "=", "#", "\"", "'", "\\", "\t"}

\* The texts over Alphabet of at most n characters.
TextsUpTo(n) == UNION {[1 .. k -> Alphabet] : k \in 0 .. n}

CodecKeys == << T("K"), T("L"), T("M") >>

\* The maps taken through the codec: 1 to MaxEntries entries, the keys
\* those of CodecKeys in order.
CodecMaps ==
    UNION {{[j \in 1 .. k |-> << CodecKeys[j], v[j] >>] :
              v \in [1 .. k -> TextsUpTo(MaxValueLen)]} : k \in 1 .. MaxEntries}

-----------------------------------------------------------------------------
(* Process Lifecycle Manager.  Its operations are functions of the manager *)
(* state [cp, err, ps] (childProcess, lastError, the children), so that    *)
(* the part of start() that runs without suspension composes into one step.*)

Mgr == [cp |-> childProcess, err |-> lastError, ps |-> procs, threw |-> FALSE]

\* A getStatus() that takes a handle for a running process.
getStatusByHandle(M) ==
    [running |-> M.cp # Null, lastError |-> orNull(M.err), pid |-> M.cp]

\* getStatus()
getStatus(M) ==
    [running |-> M.cp # Null /\ exitCode(M.ps[M.cp]) = NoCode,
     lastError |-> orNull(M.err),
     pid |-> M.cp]

\* process.kill(pid, signal): the signal reaches a child that is alive;
\* sending to one that is gone throws, and kill() swallows that.
sendSignal(M, pid, sig) ==
    IF M.ps[pid].state # "alive" THEN M
    ELSE IF sig = "SIGTERM"
         THEN [M EXCEPT !.ps[pid].term = TRUE]
         ELSE [M EXCEPT !.ps[pid].kill = TRUE]

\* A catch block that does not record the failure.
spawnChildSilent(M, file, ok) ==
    IF ok
    THEN [cp |-> Len(M.ps) + 1,
          err |-> M.err,
          ps |-> Append(M.ps, NewProc(spread(ProcessEnv, readEnv(file)))),
          threw |-> FALSE]
    ELSE [cp |-> Null, err |-> M.err, ps |-> M.ps, threw |-> FALSE]

\* start() without its catch block: a spawn that throws leaves start().
spawnChildUncaught(M, file, ok) ==
    IF ok
    THEN [cp |-> Len(M.ps) + 1,
          err |-> M.err,
          ps |-> Append(M.ps, NewProc(spread(ProcessEnv, readEnv(file)))),
          threw |-> FALSE]
    ELSE [cp |-> M.cp, err |-> M.err, ps |-> M.ps, threw |-> TRUE]

\* The try block of start(): read the file, spawn, store the handle; or the
\* catch block when spawn throws.
\* threw: an exception leaves start(); the catch block lets none out.
\* A spawn where the manager's own variables win over those of the file.
spawnChildOwnEnvWins(M, file, ok) ==
    IF ok
    THEN [cp |-> Len(M.ps) + 1,
          err |-> M.err,
          ps |-> Append(M.ps, NewProc(spread(readEnv(file), ProcessEnv))),
          threw |-> FALSE]
    ELSE [cp |-> Null, err |-> << SpawnNote >>, ps |-> M.ps, threw |-> FALSE]

spawnChild(M, file, ok) ==
    IF ok
    THEN [cp |-> Len(M.ps) + 1,
          err |-> M.err,
          ps |-> Append(M.ps, NewProc(spread(ProcessEnv, readEnv(file)))),
          threw |-> FALSE]
    ELSE [cp |-> Null, err |-> << SpawnNote >>, ps |-> M.ps, threw |-> FALSE]

\* One pass of the body of kill()'s polling loop for the call that targets
\* pid: [m, done, via], done when kill() returns (via says by which test),
\* not done when it sleeps.
pollOnce(M, pid) ==
    IF M.cp = Null THEN [m |-> M, done |-> TRUE, via |-> "cleared"]
    ELSE IF exitCode(M.ps[M.cp]) # NoCode
         THEN [m |-> [M EXCEPT !.cp = Null], done |-> TRUE, via |-> "exitCode"]
    ELSE IF probeThrows(M.ps[pid])
         THEN [m |-> [M EXCEPT !.cp = Null], done |-> TRUE, via |-> "probe"]
    ELSE [m |-> M, done |-> FALSE, via |-> "none"]

\* A kill() that clears the error buffer when it finds no handle.
killBeginClearing(M) ==
    IF M.cp = Null
    THEN [m |-> [M EXCEPT !.err = << >>], done |-> TRUE, via |-> "none",
          pid |-> Null]
    ELSE LET pid == M.cp
             r == pollOnce(sendSignal(M, pid, "SIGTERM"), pid)
         IN  [m |-> r.m, done |-> r.done, via |-> r.via, pid |-> pid]

\* kill() from its call to its first suspension or its return: nothing to do
\* without a handle; else SIGTERM and the first pass of the loop (the
\* timeout cannot have elapsed yet).
killBegin(M) ==
    IF M.cp = Null THEN [m |-> M, done |-> TRUE, via |-> "none", pid |-> Null]
    ELSE LET pid == M.cp
             r == pollOnce(sendSignal(M, pid, "SIGTERM"), pid)
         IN  [m |-> r.m, done |-> r.done, via |-> r.via, pid |-> pid]

\* start() from its call to the end of the kill() it awaits, or to that
\* kill()'s first suspension.
startBegin(M) ==
    LET M0 == [M EXCEPT !.err = << >>]
    IN  IF M0.cp # Null THEN killBegin(M0)
        ELSE [m |-> M0, done |-> TRUE, via |-> "none", pid |-> Null]

\* A restart() that spawns without terminating the child at hand.
restartWithoutKill(M) ==
    [m |-> [M EXCEPT !.err = << >>], done |-> TRUE, via |-> "none",
     pid |-> Null]

\* restart(): await this.start()
restartBegin(M) == startBegin(M)

\* After SIGKILL and the grace period: the handle is cleared.
killEnd(M) == [M EXCEPT !.cp = Null]

SetMgr(M) ==
    /\ childProcess' = M.cp
    /\ lastError' = M.err
    /\ procs' = M.ps

\* No exit is waiting to be collected or announced.  The timers of this
\* program are 100 ms and more, and the runtime delivers a child's exit to
\* the event loop ahead of a timer that is due later.
ExitsDelivered ==
    \A p \in DOMAIN procs : procs[p].state \notin {"dead", "reaped"}

-----------------------------------------------------------------------------
(* Control plane: the POST and PATCH handlers of the config route.         *)

\* What a request carries: a body req.json() parses to a map of strings, or
\* one it throws on.
Inputs ==
    {[json |-> TRUE, kind |-> "map", map |-> b] : b \in Bodies}
        \cup {[json |-> FALSE, kind |-> "text", map |-> << >>]}

\* Bodies req.json() parses to something that is not a map of strings:
\* null, a number, an array of strings, a map with a number for a value;
\* map is what Object.entries makes of it, where it does not throw.
Malformed ==
    {[json |-> TRUE, kind |-> "null", map |-> << >>],
     [json |-> TRUE, kind |-> "number", map |-> << >>],
     [json |-> TRUE, kind |-> "array", map |-> << << T("0"), T("x") >> >>],
     [json |-> TRUE, kind |-> "mixed", map |-> << << T("A"), T("1") >> >>]}

\* writeEnv throws a TypeError before it writes: Object.entries(null) in a
\* POST (a PATCH spreads null into the stored config: nothing), and
\* value.includes on a value that is not a string.
throwsInWrite(method, kind) ==
    kind = "mixed" \/ (kind = "null" /\ method = "POST")

\* Building the response throws a TypeError: Object.keys(null) in a PATCH.
throwsInResponse(method, kind) == kind = "null" /\ method = "PATCH"

\* The values of the header X-Restart-Process; "" when it is absent.
Headers == {"", "true", "false"}

\* A shouldRestart that restarts unless told "true".
shouldRestartInverted(restartHeader) == restartHeader # "true"

\* shouldRestart(req)
shouldRestart(restartHeader) == restartHeader # "false"

\* The catch block: { success: false, error: String(error) }, status 400.
FailureResp ==
    [success |-> FALSE, error |-> orNull(<< RequestNote >>),
     restarted |-> FALSE, updated |-> << >>, status |-> 400]

\* { success: true, error, restarted, updated }
SuccessResp(method, error, restarted, map) ==
    [success |-> TRUE, error |-> error, restarted |-> restarted,
     updated |-> IF method = "PATCH" THEN keysOf(map) ELSE << >>,
     status |-> 200]

\* The response of a handler that has written the file (and restarted, if
\* it was to): the success, or the catch block if building it throws.
respond(method, kind, error, restarted, map) ==
    IF throwsInResponse(method, kind) THEN FailureResp
    ELSE SuccessResp(method, error, restarted, map)

\* The config a handler writes: POST the body, PATCH the stored config with
\* the body spread over it.
configToWrite(method, file, map) ==
    IF method = "POST" THEN map ELSE spread(readEnv(file), map)

\* Handlers suspended inside start(): each will spawn one child.
Restarting == {j \in Slots : reqs[j].pc \in {"poll", "grace"}}

\* The rest of start() once its kill() has returned with the manager as M:
\* spawn (or fail to); then the handler sleeps the settle delay, or, had
\* restart() thrown, answers from its catch block; a call made on the
\* manager directly returns.
Respawn(i, M, file, r, via) ==
    \E ok \in BOOLEAN :
        LET S == spawnChild(M, file, ok)
            r1 == [r EXCEPT !.via = via,
                            !.new = IF ok THEN Len(M.ps) + 1 ELSE Null,
                            !.spawnFailed = ~ok]
        IN  /\ SetMgr(S)
            /\ reqs' = [reqs EXCEPT ![i] =
                          IF S.threw
                          THEN [r1 EXCEPT !.pc = "done", !.resp = FailureResp]
                          ELSE IF r.method \in {"START", "RESTART"}
                          THEN [r1 EXCEPT !.pc = "done"]
                          ELSE [r1 EXCEPT !.pc = "settle"]]

\* A request arrives at the first idle handler, which runs to its first
\* suspension or to its response.  writeOk: writeFileSync does not throw.
\* The route handlers do not look at the Authorization header (creds).
Handle(i, method, in, header, writeOk, creds) ==
    /\ reqs[i].pc = "idle"
    /\ \A j \in 1 .. i - 1 : reqs[j].pc # "idle"
    /\ served < MaxReq
    /\ Len(procs) + Cardinality(Restarting) < MaxPid
    /\ served' = served + 1
    /\ UNCHANGED << codec, ui >>
    /\ LET r == [Idle EXCEPT !.method = method, !.kind = in.kind,
                             !.body = in.map,
                             !.skip = (header = "false"),
                             !.creds = creds,
                             !.old = childProcess]
       IN
       IF ~in.json \/ throwsInWrite(method, in.kind) \/ ~writeOk
       THEN /\ reqs' = [reqs EXCEPT ![i] =
                          [r EXCEPT !.pc = "done", !.resp = FailureResp]]
            /\ UNCHANGED << envFile, childProcess, lastError, procs >>
       ELSE /\ envFile' = writeEnv(configToWrite(method, envFile, in.map))
            /\ LET w == [r EXCEPT !.wrote = envFile']
               IN
               IF ~shouldRestart(header)
               THEN /\ reqs' = [reqs EXCEPT ![i] =
                                  [w EXCEPT !.pc = "done",
                                            !.resp = respond(method, in.kind,
                                                orNull(<< >>), FALSE, in.map)]]
                    /\ UNCHANGED << childProcess, lastError, procs >>
               ELSE LET k == restartBegin(Mgr)
                    IN  IF k.done
                        THEN Respawn(i, k.m, envFile', w, k.via)
                        ELSE /\ SetMgr(k.m)
                             /\ reqs' = [reqs EXCEPT ![i] =
                                           [w EXCEPT !.pc = "poll",
                                                     !.pid = k.pid]]

Post(i, in, header, writeOk) == Handle(i, "POST", in, header, writeOk, TRUE)

Patch(i, in, header, writeOk) == Handle(i, "PATCH", in, header, writeOk, TRUE)

\* The same requests without the Authorization header of the configured
\* user.
PostAnon(i, in, header, writeOk) ==
    Handle(i, "POST", in, header, writeOk, FALSE)

PatchAnon(i, in, header, writeOk) ==
    Handle(i, "PATCH", in, header, writeOk, FALSE)

\* The 100 ms sleep of kill()'s loop ends.  Either the timeout has elapsed:
\* SIGKILL, then the grace sleep; or it has not: one more pass of the loop.
\* A loop of kill() without its timeout: while (true).
PollWakeNoTimeout(i, timedOut) ==
    /\ reqs[i].pc = "poll"
    /\ ExitsDelivered
    /\ UNCHANGED << envFile, served, codec, ui >>
    /\ LET k == pollOnce(Mgr, reqs[i].pid)
       IN  IF k.done
           THEN Respawn(i, k.m, envFile, reqs[i], k.via)
           ELSE /\ SetMgr(k.m)
                /\ UNCHANGED reqs

PollWake(i, timedOut) ==
    /\ reqs[i].pc = "poll"
    /\ ExitsDelivered
    /\ UNCHANGED << envFile, served, codec, ui >>
    /\ IF timedOut
       THEN /\ SetMgr(sendSignal(Mgr, reqs[i].pid, "SIGKILL"))
            /\ reqs' = [reqs EXCEPT ![i].pc = "grace"]
       ELSE LET k == pollOnce(Mgr, reqs[i].pid)
            IN  IF k.done
                THEN Respawn(i, k.m, envFile, reqs[i], k.via)
                ELSE /\ SetMgr(k.m)
                     /\ UNCHANGED reqs

\* The 200 ms grace sleep after SIGKILL ends: a process cannot outlive its
\* SIGKILL by the grace period.
GraceWake(i) ==
    /\ reqs[i].pc = "grace"
    /\ ExitsDelivered
    /\ procs[reqs[i].pid].state # "alive"
    /\ UNCHANGED << envFile, served, codec, ui >>
    /\ Respawn(i, killEnd(Mgr), envFile, reqs[i], "grace")

\* The 1000 ms settle sleep ends: sample getStatus() and build the response.
SettleWake(i) ==
    /\ reqs[i].pc = "settle"
    /\ ExitsDelivered
    /\ reqs' = [reqs EXCEPT ![i].pc = "done",
                            ![i].resp = respond(reqs[i].method, reqs[i].kind,
                                orNull(getStatus(Mgr).lastError.text),
                                TRUE, reqs[i].body)]
    /\ UNCHANGED << envFile, childProcess, lastError, procs, served, codec, ui >>

\* kill() called on the manager directly, as the library lets its user do:
\* to its return or to its first sleep.
KillCall(i) ==
    /\ reqs[i].pc = "idle"
    /\ \A j \in 1 .. i - 1 : reqs[j].pc # "idle"
    /\ served < MaxReq
    /\ served' = served + 1
    /\ UNCHANGED << envFile, codec, ui >>
    /\ LET k == killBegin(Mgr)
           r == [Idle EXCEPT !.method = "KILL", !.old = childProcess,
                             !.pid = k.pid]
       IN  /\ SetMgr(k.m)
           /\ reqs' = [reqs EXCEPT ![i] =
                         IF k.done
                         THEN [r EXCEPT !.pc = "done", !.via = k.via]
                         ELSE [r EXCEPT !.pc = "kpoll"]]

\* The 100 ms sleep of the loop of a direct kill() ends.
KillPollWake(i, timedOut) ==
    /\ reqs[i].pc = "kpoll"
    /\ ExitsDelivered
    /\ UNCHANGED << envFile, served, codec, ui >>
    /\ IF timedOut
       THEN /\ SetMgr(sendSignal(Mgr, reqs[i].pid, "SIGKILL"))
            /\ reqs' = [reqs EXCEPT ![i].pc = "kgrace"]
       ELSE LET k == pollOnce(Mgr, reqs[i].pid)
            IN  /\ SetMgr(k.m)
                /\ reqs' = IF k.done
                           THEN [reqs EXCEPT ![i].pc = "done",
                                             ![i].via = k.via]
                           ELSE reqs

\* The 200 ms grace sleep of a direct kill() ends, and kill() returns.
KillGraceWake(i) ==
    /\ reqs[i].pc = "kgrace"
    /\ ExitsDelivered
    /\ procs[reqs[i].pid].state # "alive"
    /\ UNCHANGED << envFile, served, codec, ui >>
    /\ SetMgr(killEnd(Mgr))
    /\ reqs' = [reqs EXCEPT ![i].pc = "done", ![i].via = "grace"]

\* start() or restart() called on the manager directly, as the library lets
\* its user do: to its return or to the first sleep of the kill() it awaits.
ManagerCall(i, method) ==
    /\ reqs[i].pc = "idle"
    /\ \A j \in 1 .. i - 1 : reqs[j].pc # "idle"
    /\ served < MaxReq
    /\ Len(procs) + Cardinality(Restarting) < MaxPid
    /\ served' = served + 1
    /\ UNCHANGED << envFile, codec, ui >>
    /\ LET k == IF method = "RESTART" THEN restartBegin(Mgr)
                ELSE startBegin(Mgr)
           r == [Idle EXCEPT !.method = method, !.old = childProcess]
       IN  IF k.done
           THEN Respawn(i, k.m, envFile, r, k.via)
           ELSE /\ SetMgr(k.m)
                /\ reqs' = [reqs EXCEPT ![i] =
                              [r EXCEPT !.pc = "poll", !.pid = k.pid]]

StartCall(i) == ManagerCall(i, "START")

RestartCall(i) == ManagerCall(i, "RESTART")

\* The server options authUser and authPassword: both set.
authUser == "admin"
authPassword == "secret"

\* The Authorization header of a request: none, or Basic with a user and a
\* password.
NoHeader == [basic |-> FALSE, username |-> "", password |-> ""]
AuthHeaders ==
    {NoHeader}
        \cup {[basic |-> TRUE, username |-> u, password |-> w] :
                 u \in {authUser, "guest"}, w \in {authPassword, ""}}

\* checkAuth(req): the status of the response it returns, Null for none.
checkAuth(authHeader) ==
    IF authUser = "" /\ authPassword = "" THEN Null
    ELSE IF authUser = "" \/ authPassword = "" THEN 401
    ELSE IF ~authHeader.basic THEN 401
    ELSE IF authHeader.username = authUser
              /\ authHeader.password = authPassword THEN Null
    ELSE 401

\* The fetch handler of serve(): it gets the requests no route matches.
\* checkAuth first; then, with no proxy configured, 404.
Fetch(i, authHeader) ==
    /\ reqs[i].pc = "idle"
    /\ \A j \in 1 .. i - 1 : reqs[j].pc # "idle"
    /\ served < MaxReq
    /\ served' = served + 1
    /\ reqs' = [reqs EXCEPT ![i] =
                  [Idle EXCEPT !.pc = "done", !.method = "FETCH",
                               !.creds = (checkAuth(authHeader) = Null),
                               !.old = childProcess,
                               !.resp = [NoResp EXCEPT !.status =
                                           IF checkAuth(authHeader) # Null
                                           THEN checkAuth(authHeader)
                                           ELSE 404]]]
    /\ UNCHANGED << envFile, childProcess, lastError, procs, codec, ui >>

\* Paths are texts whose items are "/" and the names between the slashes.
API_PREFIX == << "/", "process-pastry", "/", "api" >>

\* s.startsWith(p)
startsWith(s, p) == Len(s) >= Len(p) /\ SubSeq(s, 1, Len(p)) = p

ServerOptions ==
    [htmlRoute : {<< "/" >>, << "/", "ui" >>},
     defaultUI : BOOLEAN,
     proxyPort : BOOLEAN]

\* The keys of the routes object for the options.
routes(options) ==
    {options.htmlRoute}
        \cup (IF options.defaultUI
               THEN {<< "/", "ui", "/", "app.js" >>,
                     << "/", "ui", "/", "styles.css" >>}
               ELSE {})
        \cup {API_PREFIX \o << "/", name >> :
                 name \in {"config", "status", "example"}}

\* The paths of the requests.
Pathnames ==
    { << "/" >>,
      << "/", "ui" >>,
      << "/", "ui", "/", "app.js" >>,
      << "/", "ui", "/", "other" >>,
      << "/", "app" >>,
      << "/", "app", "/", "ui" >>,
      << "/", "/", "app" >>,
      << "/", "process-pastry", "/", "api" >>,
      << "/", "process-pastry", "/", "api", "/", "status" >>,
      << "/", "process-pastry", "/", "api", "/", "other" >> }

\* What the proxy target does with a forwarded request: it answers with a
\* status, or the fetch to it fails (Null).
Upstreams == {200, 500, Null}

\* proxyRequest(req, proxyHost, proxyPort): the target's response, or 502
\* when the fetch throws.
proxyRequest(upstream) ==
    [status |-> IF upstream = Null THEN 502 ELSE upstream, forwarded |-> TRUE]

\* A fetch handler that forwards whatever no route matched.
fetchForwardsAll(pathname, authHeader, options, upstream) ==
    IF checkAuth(authHeader) # Null
    THEN [status |-> checkAuth(authHeader), forwarded |-> FALSE]
    ELSE IF options.proxyPort
    THEN proxyRequest(upstream)
    ELSE [status |-> 404, forwarded |-> FALSE]

\* The fetch handler of serve() for a request no route matched: the status
\* of its response, and whether the request went to the proxy target.
fetch(pathname, authHeader, options, upstream) ==
    IF checkAuth(authHeader) # Null
    THEN [status |-> checkAuth(authHeader), forwarded |-> FALSE]
    ELSE IF options.proxyPort
    THEN IF \/ startsWith(pathname, API_PREFIX \o << "/" >>)
            \/ pathname = options.htmlRoute
            \/ startsWith(pathname, options.htmlRoute \o << "/" >>)
         THEN [status |-> 404, forwarded |-> FALSE]
         ELSE proxyRequest(upstream)
    ELSE [status |-> 404, forwarded |-> FALSE]

\* serve() gets a GET request: the route of its path answers, or fetch.
Serve(i, pathname, authHeader, options, upstream) ==
    /\ reqs[i].pc = "idle"
    /\ \A j \in 1 .. i - 1 : reqs[j].pc # "idle"
    /\ served < MaxReq
    /\ served' = served + 1
    /\ LET r == [Idle EXCEPT !.pc = "done", !.method = "GET",
                             !.pathname = pathname, !.options = options,
                             !.upstream = upstream,
                             !.creds = (checkAuth(authHeader) = Null),
                             !.old = childProcess]
           f == fetch(pathname, authHeader, options, upstream)
       IN  reqs' = [reqs EXCEPT ![i] =
                      IF pathname \in routes(options)
                      THEN [r EXCEPT !.via = "route", !.resp.status = 200]
                      ELSE [r EXCEPT
                              !.via = IF f.forwarded THEN "proxy" ELSE "fetch",
                              !.resp.status = f.status]]
    /\ UNCHANGED << envFile, childProcess, lastError, procs, codec, ui >>

\* GET status: the response is getStatus() as it is.  The route does not
\* look at the Authorization header (creds).
StatusCall(i, creds) ==
    /\ reqs[i].pc = "idle"
    /\ \A j \in 1 .. i - 1 : reqs[j].pc # "idle"
    /\ served < MaxReq
    /\ served' = served + 1
    /\ reqs' = [reqs EXCEPT ![i] =
                  [Idle EXCEPT !.pc = "done", !.method = "STATUS",
                               !.creds = creds,
                               !.old = childProcess,
                               !.resp = [NoResp EXCEPT !.status = 200],
                               !.out = getStatus(Mgr)]]
    /\ UNCHANGED << envFile, childProcess, lastError, procs, codec, ui >>

\* The response is sent and the handler ends.
Respond(i) ==
    /\ reqs[i].pc = "done"
    /\ reqs' = [reqs EXCEPT ![i] = Idle]
    /\ UNCHANGED << envFile, childProcess, lastError, procs, served, codec, ui >>

-----------------------------------------------------------------------------
(* The child processes and the runtime.                                    *)

\* A child ends, by itself or by a signal, with a code.
ProcExit(p, code) ==
    /\ p \in DOMAIN procs
    /\ procs[p].state = "alive"
    /\ procs' = [procs EXCEPT ![p] = Ended(procs[p], "dead", code)]
    /\ UNCHANGED << envFile, childProcess, lastError, reqs, served, codec, ui >>

\* The runtime collects the exit: exitCode is set, the pid is gone.
Reap(p) ==
    /\ p \in DOMAIN procs
    /\ procs[p].state = "dead"
    /\ procs' = [procs EXCEPT ![p].state = "reaped"]
    /\ UNCHANGED << envFile, childProcess, lastError, reqs, served, codec, ui >>

\* An exit watcher that takes a null exit code for a failure.
exitedThenNoNullTest(err, p, code) ==
    IF code # 0 THEN Append(err, ExitNote(p, code)) ELSE err

\* The callback of childProcess.exited.then for child p, on the error
\* buffer: a note for a code that is neither 0 nor null.
exitedThen(err, p, code) ==
    IF code # 0 /\ code # NoCode THEN Append(err, ExitNote(p, code)) ELSE err

\* An exit watcher that leaves the handle as it finds it.
ExitWatcherKeepsHandle(p) ==
    /\ p \in DOMAIN procs
    /\ procs[p].state = "reaped"
    /\ procs' = [procs EXCEPT ![p] = Ended(procs[p], "done", NoCode)]
    /\ lastError' = exitedThen(lastError, p, procs[p].code)
    /\ reqs' = [j \in Slots |->
                  IF reqs[j].pc = "settle" /\ reqs[j].new = p
                  THEN [reqs[j] EXCEPT !.exited = procs[p].code]
                  ELSE reqs[j]]
    /\ UNCHANGED << envFile, childProcess, served, codec, ui >>

\* childProcess.exited.then(...) of the child p runs.  (A handler waiting
\* on p as the child it spawned records the code.)
ExitWatcher(p) ==
    /\ p \in DOMAIN procs
    /\ procs[p].state = "reaped"
    /\ procs' = [procs EXCEPT ![p] = Ended(procs[p], "done", NoCode)]
    /\ lastError' = exitedThen(lastError, p, procs[p].code)
    /\ childProcess' = Null
    /\ reqs' = [j \in Slots |->
                  IF reqs[j].pc = "settle" /\ reqs[j].new = p
                  THEN [reqs[j] EXCEPT !.exited = procs[p].code]
                  ELSE reqs[j]]
    /\ UNCHANGED << envFile, served, codec, ui >>

\* The child writes a chunk to its stderr pipe.
StderrWrite(p) ==
    /\ p \in DOMAIN procs
    /\ procs[p].state = "alive"
    /\ procs[p].written < MaxChunks
    /\ procs' = [procs EXCEPT ![p].written = @ + 1]
    /\ UNCHANGED << envFile, childProcess, lastError, reqs, served, codec, ui >>

\* A drain loop that forwards the chunk and adds nothing to the buffer.
StderrReadForwardOnly(p) ==
    /\ p \in DOMAIN procs
    /\ procs[p].stderrReader = "open"
    /\ procs[p].read < procs[p].written
    /\ procs' = [procs EXCEPT ![p].read = @ + 1, ![p].toStderr = @ + 1]
    /\ UNCHANGED << envFile, childProcess, lastError, reqs, served, codec, ui >>

\* The stderr drain loop of child p reads a chunk: the text is added to the
\* buffer and the chunk written to the manager's stderr.
StderrRead(p) ==
    /\ p \in DOMAIN procs
    /\ procs[p].stderrReader = "open"
    /\ procs[p].read < procs[p].written
    /\ procs' = [procs EXCEPT ![p].read = @ + 1, ![p].toStderr = @ + 1]
    /\ lastError' = Append(lastError, StderrNote(p))
    /\ UNCHANGED << envFile, childProcess, reqs, served, codec, ui >>

\* The stderr drain loop of child p reads done: the child has ended and
\* nothing is left in the pipe.  The loop breaks.
StderrDone(p) ==
    /\ p \in DOMAIN procs
    /\ procs[p].stderrReader = "open"
    /\ procs[p].state # "alive"
    /\ procs[p].read = procs[p].written
    /\ procs' = [procs EXCEPT ![p].stderrReader = "eos"]
    /\ UNCHANGED << envFile, childProcess, lastError, reqs, served, codec, ui >>

\* A read of the stderr drain loop of child p rejects: the catch block of
\* the loop takes it and the loop is over.
StderrFail(p) ==
    /\ p \in DOMAIN procs
    /\ procs[p].stderrReader = "open"
    /\ procs' = [procs EXCEPT ![p].stderrReader = "failed"]
    /\ UNCHANGED << envFile, childProcess, lastError, reqs, served, codec, ui >>

\* The child writes a chunk to its stdout pipe.
StdoutWrite(p) ==
    /\ p \in DOMAIN procs
    /\ procs[p].state = "alive"
    /\ procs[p].outWritten < MaxChunks
    /\ procs' = [procs EXCEPT ![p].outWritten = @ + 1]
    /\ UNCHANGED << envFile, childProcess, lastError, reqs, served, codec, ui >>

\* The stdout drain loop of child p reads a chunk: the chunk is written to
\* the manager's stdout.
StdoutRead(p) ==
    /\ p \in DOMAIN procs
    /\ procs[p].stdoutReader = "open"
    /\ procs[p].outRead < procs[p].outWritten
    /\ procs' = [procs EXCEPT ![p].outRead = @ + 1, ![p].toStdout = @ + 1]
    /\ UNCHANGED << envFile, childProcess, lastError, reqs, served, codec, ui >>

\* The stdout drain loop of child p reads done.
StdoutDone(p) ==
    /\ p \in DOMAIN procs
    /\ procs[p].stdoutReader = "open"
    /\ procs[p].state # "alive"
    /\ procs[p].outRead = procs[p].outWritten
    /\ procs' = [procs EXCEPT ![p].stdoutReader = "eos"]
    /\ UNCHANGED << envFile, childProcess, lastError, reqs, served, codec, ui >>

\* A read of the stdout drain loop of child p rejects.
StdoutFail(p) ==
    /\ p \in DOMAIN procs
    /\ procs[p].stdoutReader = "open"
    /\ procs' = [procs EXCEPT ![p].stdoutReader = "failed"]
    /\ UNCHANGED << envFile, childProcess, lastError, reqs, served, codec, ui >>

-----------------------------------------------------------------------------
(* The default UI: the state object and the handlers that edit it.  An     *)
(* object is a function from its keys; the rows on the page are the keys   *)
(* of state.envVars, which every handler that adds or removes one renders. *)

\* The names and the values the user types, and the schema the server
\* answers loadSchema with: S is described there, with a default value.
UiKeys == {"A", "S"}
UiValues == {"", "1"}
UiSchema == [k \in {"S"} |-> [defaultValue |-> "1"]]

\* The configs the server answers loadConfig with.
ServerConfigs == { << >>, [k \in {"A"} |-> "1"], [k \in {"A"} |-> ""] }

\* o[k]: undefined for a key the object does not have.
objGet(o, k) == IF k \in DOMAIN o THEN o[k] ELSE Undefined

\* o[k] = v
objSet(o, k, v) == [x \in DOMAIN o \cup {k} |-> IF x = k THEN v ELSE o[x]]

\* delete o[k]
objDelete(o, k) == [x \in DOMAIN o \ {k} |-> o[x]]

\* A value in a condition: undefined and the empty string are false.
truthy(v) == v # Undefined /\ v # ""

\* state.envSchema[key]?.defaultValue || ""
defaultOf(st, key) ==
    IF key \in DOMAIN st.envSchema /\ truthy(st.envSchema[key].defaultValue)
    THEN st.envSchema[key].defaultValue
    ELSE ""

\* The state object as state.js makes it, before init() has loaded
\* anything.  phase: where init() is; saving: a save is waiting for its
\* response, with currentVars as collected; synced: the config last loaded
\* from or saved to the server, if any (hasSynced); event: the handler
\* that ran last, and the key it ran on.
NoUi ==
    [phase |-> "off", envVars |-> << >>, originalEnvVars |-> << >>,
     envSchema |-> << >>, hiddenVars |-> {}, hasUnsavedChanges |-> FALSE,
     saving |-> FALSE, currentVars |-> << >>,
     hasSynced |-> FALSE, synced |-> << >>,
     event |-> "none", key |-> ""]

\* checkForChanges()
checkForChanges(st) ==
    LET currentKeys == DOMAIN st.envVars
        originalKeys == DOMAIN st.originalEnvVars
    IN  [st EXCEPT !.hasUnsavedChanges =
           IF Cardinality(currentKeys) # Cardinality(originalKeys) THEN TRUE
           ELSE IF \E key \in currentKeys :
                     st.envVars[key] # objGet(st.originalEnvVars, key)
           THEN TRUE
           ELSE IF \E key \in originalKeys : key \notin currentKeys
           THEN TRUE
           ELSE FALSE]

\* updateOriginalValues()
updateOriginalValues(st) ==
    [st EXCEPT !.originalEnvVars = st.envVars, !.hasUnsavedChanges = FALSE]

UiStep(st) ==
    /\ ui' = st
    /\ UNCHANGED << envFile, childProcess, lastError, procs, reqs, served,
                    codec >>

\* The page is opened: init() starts, and loadSchema() gets the schema or
\* fails.
PageOpen(ok) ==
    /\ ui.phase = "off"
    /\ UiStep([ui EXCEPT !.phase = "loading",
                         !.envSchema = IF ok THEN UiSchema ELSE << >>])

\* loadConfig(): the config of the server becomes envVars and
\* originalEnvVars, or the request fails; init() renders and attaches the
\* handlers.
loadConfig(cfg, ok) ==
    /\ ui.phase = "loading"
    /\ UiStep(IF ok
              THEN [ui EXCEPT !.phase = "ready", !.envVars = cfg,
                              !.originalEnvVars = cfg,
                              !.hasUnsavedChanges = FALSE,
                              !.hasSynced = TRUE, !.synced = cfg,
                              !.event = "load"]
              ELSE [ui EXCEPT !.phase = "ready", !.event = "loadFailed"])

\* Click on Add with key and value typed (trimmed; the key not empty).
AddVar(key, value) ==
    /\ ui.phase = "ready"
    /\ IF key \in DOMAIN ui.envVars \cup ui.hiddenVars
       THEN UiStep([ui EXCEPT !.event = "addRefused", !.key = key])
       ELSE LET finalValue == IF truthy(value) THEN value
                              ELSE defaultOf(ui, key)
            IN  UiStep(checkForChanges(
                  [ui EXCEPT !.envVars = objSet(@, key, finalValue),
                             !.event = "add", !.key = key]))

\* Click on Add of an example variable: one of the schema that is not
\* hidden and has no value, or an empty one, in envVars.
AddExample(key) ==
    /\ ui.phase = "ready"
    /\ key \in DOMAIN ui.envSchema
    /\ ~truthy(objGet(ui.envVars, key))
    /\ key \notin ui.hiddenVars
    /\ UiStep(checkForChanges(
         [ui EXCEPT !.envVars = objSet(@, key, defaultOf(ui, key)),
                    !.hiddenVars = @ \ {key},
                    !.event = "addExample", !.key = key]))

\* The name in the row of oldKey is changed to newKey.
KeyChange(oldKey, newKey) ==
    /\ ui.phase = "ready"
    /\ oldKey \in DOMAIN ui.envVars
    /\ newKey # oldKey
    /\ LET moved ==
             [ui EXCEPT
                !.envVars = objDelete(objSet(@, newKey, ui.envVars[oldKey]),
                                      oldKey),
                !.originalEnvVars =
                   IF objGet(ui.originalEnvVars, oldKey) # Undefined
                   THEN objDelete(objSet(@, newKey,
                                         ui.originalEnvVars[oldKey]), oldKey)
                   ELSE @]
           added ==
             [ui EXCEPT
                !.envVars = objSet(@, newKey, defaultOf(ui, oldKey)),
                !.originalEnvVars = objSet(@, newKey, defaultOf(ui, oldKey))]
           st == IF truthy(ui.envVars[oldKey]) THEN moved ELSE added
       IN  UiStep(checkForChanges(
             [st EXCEPT !.hiddenVars = IF oldKey \in @
                                       THEN (@ \ {oldKey}) \cup {newKey}
                                       ELSE @,
                        !.event = "rename", !.key = oldKey]))

\* The value in the row of key is typed over.
ValueInput(key, value) ==
    /\ ui.phase = "ready"
    /\ key \in DOMAIN ui.envVars
    /\ UiStep(checkForChanges(
         [ui EXCEPT !.hiddenVars =
                       IF ~truthy(ui.envVars[key])
                            /\ key \in DOMAIN ui.envSchema
                       THEN @ \ {key} ELSE @,
                    !.envVars = objSet(@, key, value),
                    !.event = "input", !.key = key]))

\* Click on Delete in the row of key.
DeleteClick(key) ==
    /\ ui.phase = "ready"
    /\ key \in DOMAIN ui.envVars
    /\ UiStep(checkForChanges(
         [ui EXCEPT !.envVars = IF truthy(ui.envVars[key])
                                THEN objDelete(@, key) ELSE @,
                    !.hiddenVars = IF key \in DOMAIN ui.envSchema
                                   THEN @ \ {key} ELSE @ \cup {key},
                    !.event = "delete", !.key = key]))

\* saveConfig() up to its fetch: the rows are collected.
SaveClick ==
    /\ ui.phase = "ready"
    /\ ~ui.saving
    /\ UiStep([ui EXCEPT !.saving = TRUE, !.currentVars = ui.envVars,
                         !.event = "saveSent"])

\* saveConfig() from the response on: result.success or not.
SaveDone(success) ==
    /\ ui.saving
    /\ UiStep(IF success
              THEN [updateOriginalValues(
                      [ui EXCEPT !.envVars = ui.currentVars])
                      EXCEPT !.saving = FALSE, !.currentVars = << >>,
                             !.hasSynced = TRUE, !.synced = ui.currentVars,
                             !.event = "save"]
              ELSE [ui EXCEPT !.saving = FALSE, !.currentVars = << >>,
                              !.event = "saveFailed"])

-----------------------------------------------------------------------------
(* Specifications.                                                         *)

\* startServer: the manager is constructed and start() runs at once, with no
\* handle to kill, so it spawns (or fails to) before any request is served.
Init ==
    /\ envFile \in InitFiles
    /\ \E ok \in BOOLEAN :
         LET M == spawnChild([cp |-> Null, err |-> << >>, ps |-> << >>,
                              threw |-> FALSE], envFile, ok)
         IN  /\ childProcess = M.cp
             /\ lastError = M.err
             /\ procs = M.ps
    /\ reqs = [i \in Slots |-> Idle]
    /\ served = 0
    /\ codec = NoCodec
    /\ ui = NoUi

\* writeEnv(file, m)
CodecWrite ==
    /\ codec.step = "in"
    /\ codec' = [codec EXCEPT !.step = "written", !.file = writeEnv(codec.m)]
    /\ UNCHANGED << envFile, childProcess, lastError, procs, reqs, served, ui >>

\* readEnv(file)
CodecRead ==
    /\ codec.step = "written"
    /\ codec' = [codec EXCEPT !.step = "read", !.out = readEnv(codec.file)]
    /\ UNCHANGED << envFile, childProcess, lastError, procs, reqs, served, ui >>

\* readEnv(file) of a file that was not written by writeEnv
CodecDecode ==
    /\ codec.step = "file"
    /\ codec' = [codec EXCEPT !.step = "decoded", !.out = readEnv(codec.file)]
    /\ UNCHANGED << envFile, childProcess, lastError, procs, reqs, served, ui >>

\* readEnvExample without the test for the file: it reads whatever the path
\* names.
SchemaOpenNoExistsTest ==
    /\ codec.step = "example"
    /\ codec' =
         IF ~codec.args.exampleEnvPath /\ ~codec.args.envPath
         THEN [codec EXCEPT !.step = "returned"]
         ELSE IF ~codec.file.exists \/ ~codec.args.readable
         THEN [codec EXCEPT !.step = "threw"]
         ELSE [codec EXCEPT !.step = "lines",
                            !.lines = splitLines(codec.file.content)]
    /\ UNCHANGED << envFile, childProcess, lastError, procs, reqs, served, ui >>

\* readEnvExample(exampleEnvPath, envPath) up to its loop: the path is
\* resolved, the file looked for and read.
SchemaOpen ==
    /\ codec.step = "example"
    /\ codec' =
         IF ~codec.args.exampleEnvPath /\ ~codec.args.envPath
         THEN [codec EXCEPT !.step = "returned"]
         ELSE IF ~codec.file.exists
         THEN [codec EXCEPT !.step = "returned"]
         ELSE IF ~codec.args.readable
         THEN [codec EXCEPT !.step = "threw"]
         ELSE [codec EXCEPT !.step = "lines",
                            !.lines = splitLines(codec.file.content)]
    /\ UNCHANGED << envFile, childProcess, lastError, procs, reqs, served, ui >>

\* One turn of the while loop of readEnvExample.
SchemaLine ==
    /\ codec.step = "lines"
    /\ codec.i < Len(codec.lines)
    /\ LET st == schemaLine([schema |-> codec.schema,
                             currentComments |-> codec.currentComments],
                            codec.lines[codec.i + 1])
       IN  codec' = [codec EXCEPT !.i = @ + 1,
                                   !.line = codec.lines[codec.i + 1],
                                   !.schema = st.schema,
                                   !.currentComments = st.currentComments]
    /\ UNCHANGED << envFile, childProcess, lastError, procs, reqs, served, ui >>

\* The loop of readEnvExample ends: return schema.
SchemaReturn ==
    /\ codec.step = "lines"
    /\ codec.i = Len(codec.lines)
    /\ codec' = [codec EXCEPT !.step = "returned"]
    /\ UNCHANGED << envFile, childProcess, lastError, procs, reqs, served, ui >>

\* GET API_PREFIX/example answers with what readEnvExample returned, or with
\* {} when it threw.
ExampleGet ==
    /\ codec.step \in {"returned", "threw"}
    /\ codec' = [codec EXCEPT
                   !.step = "answered",
                   !.out = IF codec.step = "threw" THEN << >>
                           ELSE codec.schema]
    /\ UNCHANGED << envFile, childProcess, lastError, procs, reqs, served, ui >>

Lifecycle ==
    \/ \E p \in 1 .. MaxPid, code \in ExitCodes : ProcExit(p, code)
    \/ \E p \in 1 .. MaxPid : Reap(p)
    \/ \E p \in 1 .. MaxPid : ExitWatcher(p)

Stderr ==
    \/ \E p \in 1 .. MaxPid : StderrWrite(p)
    \/ \E p \in 1 .. MaxPid : StderrRead(p)

Timers ==
    \/ \E i \in Slots, timedOut \in BOOLEAN : PollWake(i, timedOut)
    \/ \E i \in Slots : GraceWake(i)
    \/ \E i \in Slots : SettleWake(i)
    \/ \E i \in Slots : Respond(i)

Requests ==
    \/ \E i \in Slots, in \in Inputs, header \in Headers, writeOk \in BOOLEAN :
         Post(i, in, header, writeOk)
    \/ \E i \in Slots, in \in Inputs, header \in Headers, writeOk \in BOOLEAN :
         Patch(i, in, header, writeOk)

Next == Requests \/ Timers \/ Lifecycle \/ Stderr

\* The whole system: requests may overlap, up to MaxInFlight handlers are
\* suspended at once.
Spec == Init /\ [][Next]_vars

\* No handler is suspended.
Quiet == \A j \in Slots : reqs[j].pc = "idle"

\* One request at a time: a request arrives only when no handler is suspended.
NextSeq == (Quiet /\ Requests) \/ Timers \/ Lifecycle \/ Stderr

SpecSeq == Init /\ [][NextSeq]_vars

\* Overlapping requests, with children that write nothing to stderr.
NextRace == Requests \/ Timers \/ Lifecycle

SpecRace == Init /\ [][NextRace]_vars

\* Request bodies whose keys and values are any strings: a value with a
\* newline followed by an assignment, a value with a newline and no '=',
\* a value that ends in a newline and a comment, a key with '=' in it, a
\* key with a newline in it, and a plain one.
Payloads ==
    { << << T("C"), << "x", "\n", "E", "=", "1" >> >> >>,
      << << T("C"), << "\n", "E" >> >> >>,
      << << T("C"), << "a", "\n", "#" >> >> >>,
      << << << "C", "=", "D" >>, T("1") >> >>,
      << << << "C", "\n", "E" >>, T("1") >> >>,
      << << T("B"), T("3") >> >> }

PayloadInputs == {[json |-> TRUE, kind |-> "map", map |-> b] : b \in Payloads}

PayloadRequests ==
    \/ \E i \in Slots, in \in PayloadInputs, header \in Headers :
         Post(i, in, header, TRUE)
    \/ \E i \in Slots, in \in PayloadInputs, header \in Headers :
         Patch(i, in, header, TRUE)

\* One request at a time, the bodies any strings, with children that write
\* nothing to stderr.
NextInject == (Quiet /\ PayloadRequests) \/ Timers \/ Lifecycle

SpecInject == Init /\ [][NextInject]_vars

\* The manager used directly: start() and restart(), one call at a time,
\* with children that write nothing to stderr.
ManagerCalls ==
    \/ \E i \in Slots : StartCall(i)
    \/ \E i \in Slots : RestartCall(i)

CallWaits ==
    \/ \E i \in Slots, timedOut \in BOOLEAN : PollWake(i, timedOut)
    \/ \E i \in Slots : GraceWake(i)
    \/ \E i \in Slots : Respond(i)

NextCalls == (Quiet /\ ManagerCalls) \/ CallWaits \/ Lifecycle

SpecCalls == Init /\ [][NextCalls]_vars

\* The default UI alone: the page is opened and the user edits and saves.
Edits ==
    \/ \E key \in UiKeys, value \in UiValues : AddVar(key, value)
    \/ \E key \in UiKeys : AddExample(key)
    \/ \E oldKey \in UiKeys, newKey \in UiKeys : KeyChange(oldKey, newKey)
    \/ \E key \in UiKeys, value \in UiValues : ValueInput(key, value)
    \/ \E key \in UiKeys : DeleteClick(key)

Loads ==
    \/ \E ok \in BOOLEAN : PageOpen(ok)
    \/ \E cfg \in ServerConfigs, ok \in BOOLEAN : loadConfig(cfg, ok)

Saves ==
    \/ SaveClick
    \/ \E success \in BOOLEAN : SaveDone(success)

NextUi == Loads \/ Edits \/ Saves

InitUi ==
    /\ envFile = NoFile
    /\ childProcess = Null
    /\ lastError = << >>
    /\ procs = << >>
    /\ reqs = [i \in Slots |-> Idle]
    /\ served = 0
    /\ codec = NoCodec
    /\ ui = NoUi

SpecUi == InitUi /\ [][NextUi]_vars

\* The server with HTTP Basic Auth configured, and the manager used directly
\* as well: one call or request at a time, among them kill(), GET status,
\* requests no route matches, requests without the credentials and payloads
\* that are not maps of strings; the children write nothing to stderr.
Calls ==
    \/ \E i \in Slots : KillCall(i)
    \/ \E i \in Slots, creds \in BOOLEAN : StatusCall(i, creds)
    \/ \E i \in Slots, authHeader \in AuthHeaders : Fetch(i, authHeader)

\* Requests without the credentials, and requests with a payload that is
\* not a map of strings.
OtherRequests ==
    \/ \E i \in Slots, in \in Inputs, header \in Headers, writeOk \in BOOLEAN :
         PostAnon(i, in, header, writeOk)
    \/ \E i \in Slots, in \in Inputs, header \in Headers, writeOk \in BOOLEAN :
         PatchAnon(i, in, header, writeOk)
    \/ \E i \in Slots, in \in Malformed, header \in Headers :
         Post(i, in, header, TRUE)
    \/ \E i \in Slots, in \in Malformed, header \in Headers :
         Patch(i, in, header, TRUE)

CallTimers ==
    \/ \E i \in Slots, timedOut \in BOOLEAN : KillPollWake(i, timedOut)
    \/ \E i \in Slots : KillGraceWake(i)

NextApi ==
    \/ Quiet /\ Requests
    \/ Quiet /\ Calls
    \/ Quiet /\ OtherRequests
    \/ Timers
    \/ CallTimers
    \/ Lifecycle

SpecApi == Init /\ [][NextApi]_vars

\* The decoder alone, on files somebody edited: a line of at most MaxLineLen
\* characters of LineAlphabet between the two lines L=w and M=x.
MaxLineLen == 5

LineAlphabet == {"K", "L", "v", "=", " ", "#"}

TestLines == UNION {[1 .. k -> LineAlphabet] : k \in 0 .. MaxLineLen}

\* Lines K=value whose value has quote characters and backslashes.
QuoteAlphabet == {"v", "\"", "'", "\\"}

QuotedLines ==
    {<< "K", "=" >> \o t :
       t \in UNION {[1 .. k -> QuoteAlphabet] : k \in 0 .. MaxLineLen - 2}}

FirstLine == << "L", "=", "w" >>

LastLine == << "M", "=", "x" >>

InitDecode ==
    /\ envFile = NoFile
    /\ childProcess = Null
    /\ lastError = << >>
    /\ procs = << >>
    /\ reqs = [i \in Slots |-> Idle]
    /\ served = 0
    /\ ui = NoUi
    /\ \/ \E line \in TestLines \cup QuotedLines :
            codec = [NoCodec EXCEPT
                       !.step = "file",
                       !.line = line,
                       !.file = FileOf(FirstLine \o << "\n" >> \o line
                                         \o << "\n" >> \o LastLine)]
       \/ codec = [NoCodec EXCEPT !.step = "file"]

NextDecode == CodecDecode

SpecDecode == InitDecode /\ [][NextDecode]_vars

\* The streams of the children: the manager is used directly, its start()
\* at construction and then kill(), while the children write to stderr and
\* stdout and the drain loops read, reach the end or fail.
Streams ==
    \/ \E p \in 1 .. MaxPid : StdoutWrite(p)
    \/ \E p \in 1 .. MaxPid : StdoutRead(p)
    \/ \E p \in 1 .. MaxPid : StderrDone(p)
    \/ \E p \in 1 .. MaxPid : StderrFail(p)
    \/ \E p \in 1 .. MaxPid : StdoutDone(p)
    \/ \E p \in 1 .. MaxPid : StdoutFail(p)

KillCalls == \E i \in Slots : KillCall(i)

NextStreams ==
    \/ Quiet /\ KillCalls
    \/ CallTimers
    \/ Lifecycle
    \/ Stderr
    \/ Streams

SpecStreams == Init /\ [][NextStreams]_vars

\* The process the kernel ends: one that was sent SIGKILL.
KilledExit(p) ==
    /\ p \in DOMAIN procs
    /\ procs[p].kill
    /\ \E code \in ExitCodes : ProcExit(p, code)

\* One request or kill() at a time, and time passes: the timeout of a
\* kill() loop elapses, each sleep ends, the kernel ends a process that was
\* sent SIGKILL, and the runtime collects each exit and runs its callback.
\* Nothing makes a child end by itself.
NextTimed ==
    \/ Quiet /\ Requests
    \/ Quiet /\ KillCalls
    \/ Timers
    \/ CallTimers
    \/ Lifecycle

\* A timeout elapses or a sleep ends.
TimePasses ==
    \E i \in Slots :
        \/ PollWake(i, TRUE)
        \/ GraceWake(i)
        \/ SettleWake(i)
        \/ KillPollWake(i, TRUE)
        \/ KillGraceWake(i)

\* The kernel and the runtime's event loop take a step.
RuntimeRuns ==
    \E p \in 1 .. MaxPid : KilledExit(p) \/ Reap(p) \/ ExitWatcher(p)

SpecTimed ==
    /\ Init
    /\ [][NextTimed]_vars
    /\ SF_vars(TimePasses)
    /\ WF_vars(RuntimeRuns)

\* The server as it hands out requests: one GET at a time, for each way of
\* setting htmlRoute, the UI and the proxy.
Gets ==
    \E i \in Slots, pathname \in Pathnames, authHeader \in AuthHeaders,
       options \in ServerOptions, upstream \in Upstreams :
        Serve(i, pathname, authHeader, options, upstream)

Responses == \E i \in Slots : Respond(i)

NextServe == (Quiet /\ Gets) \/ Responses

SpecServe == Init /\ [][NextServe]_vars

\* The schema reader alone: GET API_PREFIX/example on an example file of at
\* most MaxSchemaLines lines, each one of SchemaLines.
MaxSchemaLines == 3

SchemaLines ==
    { << >>,
      << " " >>,
      << "#", " ", "c" >>,
      << "#", " ", "d" >>,
      << "#" >>,
      << "K", "=", "v" >>,
      << "K", "=" >>,
      << "K", "=", "'", "v", "'" >>,
      << "K", " ", "=", " ", "v" >>,
      << "c" >>,
      << "#", " ", "L", "=", "w" >>,
      << "#", " ", "M" >>,
      << "#", " ", "L", " ", "=", " ", "w" >>,
      << "#", " ", "=", "w" >>,
      << "K", "=", " " >>,
      << "#", " ", "L", "=", " " >> }

ExampleFiles ==
    {NoFile} \cup
    {FileOf(joinLines(ls)) :
       ls \in UNION {[1 .. k -> SchemaLines] : k \in 0 .. MaxSchemaLines}}

\* The ways the route is set up: exampleEnvPath or envPath given or not,
\* the example file readable or not (a directory, a file without read
\* permission).
ExampleArgs ==
    [exampleEnvPath : BOOLEAN, envPath : BOOLEAN, readable : BOOLEAN]

InitSchema ==
    /\ envFile = NoFile
    /\ childProcess = Null
    /\ lastError = << >>
    /\ procs = << >>
    /\ reqs = [i \in Slots |-> Idle]
    /\ served = 0
    /\ ui = NoUi
    /\ \E file \in ExampleFiles, args \in ExampleArgs :
         /\ args = [exampleEnvPath |-> TRUE, envPath |-> TRUE,
                    readable |-> TRUE]
            \/ ~file.exists
            \/ Len(file.content) <= 3
         /\ codec = [NoCodec EXCEPT !.step = "example", !.file = file,
                                    !.args = args]

NextSchema == SchemaOpen \/ SchemaLine \/ SchemaReturn \/ ExampleGet

SpecSchema == InitSchema /\ [][NextSchema]_vars

\* One request at a time, with children that write nothing to stderr, and
\* the runtime's event loop: an exit is collected, and the callback of a
\* settled exited promise is run, in the end.
NextLive == (Quiet /\ Requests) \/ Timers \/ Lifecycle

SpecLive ==
    /\ Init
    /\ [][NextLive]_vars
    /\ \A p \in 1 .. MaxPid : WF_vars(Reap(p)) /\ WF_vars(ExitWatcher(p))

\* The config store alone: a map is written with writeEnv, then read back
\* with readEnv.
\* The map { A: "hello world" }.
ExampleMaps ==
    { << << T("A"),
            << "h", "e", "l", "l", "o", " ", "w", "o", "r", "l", "d" >> >> >> }

InitCodec ==
    /\ envFile = NoFile
    /\ childProcess = Null
    /\ lastError = << >>
    /\ procs = << >>
    /\ reqs = [i \in Slots |-> Idle]
    /\ served = 0
    /\ ui = NoUi
    /\ \E m \in CodecMaps \cup ExampleMaps :
         codec = [NoCodec EXCEPT !.step = "in", !.m = m]

NextCodec == CodecWrite \/ CodecRead

SpecCodec == InitCodec /\ [][NextCodec]_vars

-----------------------------------------------------------------------------
(* Properties.                                                             *)

\* The children that are alive.
Alive == {p \in DOMAIN procs : procs[p].state = "alive"}

\* The notes of a text.
notes(text) == {text[k] : k \in DOMAIN text}

\* In this step the start() of handler i spawns its child.
Spawns(i) == reqs[i].new = Null /\ reqs'[i].new # Null

\* In this step handler i takes its request and writes the file.
Writes(i) ==
    reqs[i].pc = "idle" /\ reqs'[i].pc # "idle" /\ reqs'[i].wrote.exists

\* In this step handler i samples getStatus() and builds its response.
Samples(i) == reqs[i].pc = "settle" /\ reqs'[i].pc = "done"

\* C1: with one request at a time, when a start() called with a handle
\* present spawns its child, the process of that handle is no longer alive,
\* by whichever path kill() returned; and start() calls made one after the
\* other leave at most one child alive.
C1_SpawnAfterTermination ==
    [][\A i \in Slots :
         Spawns(i) =>
           /\ reqs'[i].old # Null => procs'[reqs'[i].old].state # "alive"
           /\ Cardinality(Alive') <= 1]_vars

\* C2: with overlapping requests, at most one child is alive in every
\* state, and no child is spawned by a step that starts with a handle whose
\* process is alive.
C2_AtMostOneAlive ==
    [][/\ Cardinality(Alive') <= 1
       /\ \A i \in Slots :
            Spawns(i) => ~(childProcess # Null /\ childProcess \in Alive)]_vars

\* C3: with one request at a time, a restarting request spawns its child
\* after the old one is gone, with the parent environment overlaid with the
\* config decoded from the file the request wrote; its response, built after
\* the settle delay, is a success with restarted true and the error buffer
\* sampled then; and if the new child is still running then, the status has a
\* pid that is not null and not the old one.
C3_RestartSequence ==
    [][\A i \in Slots :
         /\ Spawns(i) =>
              /\ procs'[reqs'[i].new].env
                    = spread(ProcessEnv, readEnv(reqs'[i].wrote))
              /\ reqs'[i].old # Null => procs'[reqs'[i].old].state # "alive"
         /\ Samples(i) =>
              LET st == getStatus(Mgr)
                  resp == reqs'[i].resp
              IN  /\ resp.success /\ resp.restarted
                  /\ resp.error = st.lastError
                  /\ reqs[i].new \in Alive =>
                        st.pid # Null /\ st.pid # reqs[i].old]_vars

\* C4: a request whose body was a map and whose write succeeded is answered
\* with success true and status 200, whatever became of the restart.
C4_SuccessWhateverTheProcessDoes ==
    \A i \in Slots :
        reqs[i].pc = "done" /\ reqs[i].wrote.exists =>
            reqs[i].resp.success /\ reqs[i].resp.status = 200

\* A request is answered with success although its spawn failed.
C4_Witness ==
    \E i \in Slots :
        /\ reqs[i].pc = "done"
        /\ reqs[i].wrote.exists
        /\ reqs[i].spawnFailed
        /\ reqs[i].resp.success

\* C5: the response to a request that restarted, and whose new process could
\* not be spawned or exited with a non-zero code before the sample, has a
\* non-null error holding the failure's note.
C5_FailureReported ==
    \A i \in Slots :
        reqs[i].pc = "done" /\ reqs[i].resp.restarted =>
            LET error == reqs[i].resp.error
            IN  /\ reqs[i].spawnFailed =>
                     ~error.null /\ SpawnNote \in notes(error.text)
                /\ reqs[i].exited \notin {0, NoCode} =>
                     /\ ~error.null
                     /\ ExitNote(reqs[i].new, reqs[i].exited)
                           \in notes(error.text)

\* C6: a request with X-Restart-Process: false whose write succeeds is
\* answered at once with success true, error null, restarted false; the
\* step writes the file and leaves the handle, the error buffer and every
\* process as they were.
C6_SkipRestartFrame ==
    [][\A i \in Slots :
         Writes(i) /\ reqs'[i].skip =>
           /\ reqs'[i].pc = "done"
           /\ reqs'[i].resp.success
           /\ reqs'[i].resp.error.null
           /\ ~reqs'[i].resp.restarted
           /\ envFile' = reqs'[i].wrote
           /\ UNCHANGED << childProcess, lastError, procs >>]_vars

\* A request that skipped the restart is answered with error null while the
\* error buffer is not empty and a child is managed.
C6_Witness ==
    \E i \in Slots :
        /\ reqs[i].pc = "done"
        /\ reqs[i].skip
        /\ reqs[i].wrote.exists
        /\ reqs[i].resp.error.null
        /\ lastError # << >>
        /\ childProcess \in Alive

\* C7: with one request at a time, after a successful POST of the map m the
\* stored config reads back as exactly m.
C7_ReplaceReadsBack ==
    \A i \in Slots :
        reqs[i].pc = "done" /\ reqs[i].method = "POST" /\ reqs[i].resp.success
            => entries(readEnv(envFile)) = entries(reqs[i].body)

\* C8: a successful PATCH of p over the stored config c leaves every key of p
\* with p's value and every other key of c with its value, and answers with
\* updated the keys of p.
C8_PatchMerges ==
    [][\A i \in Slots :
         /\ Writes(i) /\ reqs'[i].method = "PATCH" =>
              LET c == readEnv(envFile)
                  after == readEnv(envFile')
                  p == reqs'[i].body
              IN  /\ \A k \in keySet(p) :
                        k \in keySet(after) /\ valueOf(after, k) = valueOf(p, k)
                  /\ \A k \in keySet(c) \ keySet(p) :
                        k \in keySet(after) /\ valueOf(after, k) = valueOf(c, k)
         /\ reqs'[i].pc = "done" /\ reqs'[i].method = "PATCH"
              /\ reqs'[i].resp.success =>
                reqs'[i].resp.updated = keysOf(reqs'[i].body)]_vars

\* C9: a map whose values hold no newline, written with writeEnv and read
\* back with readEnv, is the same map.
C9_RoundTrip ==
    codec.step = "read" => entries(codec.out) = entries(codec.m)

\* C10: when the exit watcher of child p runs and finds the code N, neither
\* 0 nor null, the note naming N is appended to the error buffer, the handle
\* is cleared, and getStatus() has running false and the note in lastError;
\* when it finds 0 or null, the error buffer is left as it was.
C10_ExitWatcher ==
    [][\A p \in DOMAIN procs :
         procs[p].state = "reaped" /\ procs'[p].state = "done" =>
           LET N == procs[p].code
               st == getStatus([cp |-> childProcess', err |-> lastError',
                                ps |-> procs', threw |-> FALSE])
           IN  IF N # 0 /\ N # NoCode
               THEN /\ lastError' = Append(lastError, ExitNote(p, N))
                    /\ childProcess' = Null
                    /\ ~st.running
                    /\ ExitNote(p, N) \in notes(st.lastError.text)
               ELSE lastError' = lastError]_vars

\* The exit watcher of a child that ended with code 7 has run: its note is
\* in the error buffer and there is no handle.
C10_Witness ==
    \E p \in DOMAIN procs :
        /\ procs[p].state = "done"
        /\ ExitNote(p, 7) \in notes(lastError)
        /\ childProcess = Null

\* C11: when the spawn inside start() fails, start() resolves without
\* throwing (the handler goes on to its settle delay), the handle is null,
\* the error buffer is the failure message, and getStatus() has running
\* false, pid null and a lastError that is not null.
C11_SpawnFailure ==
    [][\A i \in Slots :
         ~reqs[i].spawnFailed /\ reqs'[i].spawnFailed =>
           LET st == getStatus([cp |-> childProcess', err |-> lastError',
                                ps |-> procs', threw |-> FALSE])
           IN  /\ reqs'[i].pc = "settle"
               /\ childProcess' = Null
               /\ lastError' = << SpawnNote >>
               /\ ~st.running
               /\ st.pid = Null
               /\ ~st.lastError.null]_vars

\* A start() that had a child to kill has failed to spawn the new one.
C11_Witness ==
    \E i \in Slots :
        /\ reqs[i].pc = "settle"
        /\ reqs[i].spawnFailed
        /\ reqs[i].old # Null
        /\ childProcess = Null
        /\ lastError = << SpawnNote >>

\* In this step handler i, in kill(), sends SIGKILL.
SendsKill(i) ==
    reqs[i].pc \in {"poll", "kpoll"} /\ reqs'[i].pc \in {"grace", "kgrace"}

\* In this step the direct kill() of handler i returns.
KillReturns(i) ==
    reqs'[i].method = "KILL" /\ reqs[i].pc # "done" /\ reqs'[i].pc = "done"

\* C12: a kill() called when there is no handle returns in the same step,
\* sends no signal and leaves the handle, the error buffer, the processes
\* and the file as they were, with running false; so a kill() after a kill()
\* changes nothing.
C12_KillWithoutHandle ==
    [][\A i \in Slots :
         reqs[i].pc = "idle" /\ reqs'[i].method = "KILL"
              /\ childProcess = Null =>
           /\ reqs'[i].pc = "done"
           /\ reqs'[i].via = "none"
           /\ UNCHANGED << childProcess, lastError, procs, envFile >>
           /\ ~getStatus(Mgr).running]_vars

\* A second call, a kill(), has found no handle although a child was
\* managed before and the error buffer is not empty.
C12_Witness ==
    \E i \in Slots :
        /\ reqs[i].method = "KILL"
        /\ reqs[i].pc = "done"
        /\ reqs[i].old = Null
        /\ served = 2
        /\ procs # << >>
        /\ lastError # << >>

\* C13: kill() sends SIGKILL only to a process that is still alive and has
\* been sent SIGTERM, with the handle not cleared; and when kill() returns
\* the handle is null.
C13_KillOnlyIfAlive ==
    [][\A i \in Slots :
         /\ SendsKill(i) =>
              /\ childProcess # Null
              /\ procs[reqs[i].pid].state = "alive"
              /\ procs[reqs[i].pid].term
         /\ KillReturns(i) => childProcess' = Null]_vars

\* C14: GET status answers with running = (a handle is present and its exit
\* code is unknown), lastError = the error buffer or null when it is empty,
\* pid = the handle or null, all of the state as it is, and leaves the
\* handle, the error buffer, the processes and the file as they were: so a
\* second call with no event in between answers the same.
C14_StatusIsARead ==
    [][\A i \in Slots :
         reqs[i].pc = "idle" /\ reqs'[i].method = "STATUS" =>
           /\ reqs'[i].out.running
                 = (childProcess # Null
                      /\ ~(procs[childProcess].state = "reaped"
                             /\ procs[childProcess].code # NoCode))
           /\ reqs'[i].out.lastError.null = (lastError = << >>)
           /\ reqs'[i].out.lastError.text = lastError
           /\ reqs'[i].out.pid = childProcess
           /\ UNCHANGED << childProcess, lastError, procs, envFile >>]_vars

\* GET status has answered running false with a pid: the handle was
\* present and its exit code known.
C14_Witness ==
    \E i \in Slots :
        /\ reqs[i].method = "STATUS"
        /\ reqs[i].pc = "done"
        /\ ~reqs[i].out.running
        /\ reqs[i].out.pid # Null

\* C15: with one request at a time, once the start() of a request has
\* resolved, every piece of the error buffer comes from that call: the
\* stderr or the exit note of the child it spawned, or its spawn failure,
\* and none from the process it terminated.
C15_OnlyNewProcessText ==
    \A i \in Slots :
        reqs[i].pc \in {"settle", "done"} /\ reqs[i].wrote.exists
            /\ ~reqs[i].skip =>
          \A n \in notes(lastError) :
              \/ n = SpawnNote /\ reqs[i].spawnFailed
              \/ n.pid # Null /\ n.pid = reqs[i].new

\* C16: with HTTP Basic Auth configured, a request without the
\* Authorization header of the configured user is answered 401 at once and
\* leaves the file, the handle, the error buffer and the processes as they
\* were.
C16_AuthOnEveryRoute ==
    [][\A i \in Slots :
         reqs[i].pc = "idle" /\ reqs'[i].pc # "idle" /\ ~reqs'[i].creds =>
           /\ reqs'[i].pc = "done"
           /\ reqs'[i].resp.status = 401
           /\ UNCHANGED << envFile, childProcess, lastError, procs >>]_vars

\* C17: a POST or PATCH whose body is not JSON, or whose payload is not a
\* map of strings, is answered with success false, a message and status
\* 400.
C17_MalformedInputFails ==
    \A i \in Slots :
        reqs[i].pc = "done" /\ reqs[i].method \in {"POST", "PATCH"}
            /\ reqs[i].kind # "map" =>
          /\ ~reqs[i].resp.success
          /\ ~reqs[i].resp.error.null
          /\ reqs[i].resp.status = 400

\* C18: a child that has ended, in particular one that ended by itself with
\* no signal sent to it, has its exit watcher run in the end; the step of the
\* exit watcher leaves the handle null; and while the handle is null
\* getStatus() has running false and pid null, the handle staying null until
\* a start() spawns a child.
C18_ExitClearsHandle ==
    /\ \A p \in 1 .. MaxPid :
         (p \in DOMAIN procs /\ procs[p].state = "dead")
           ~> (p \in DOMAIN procs /\ procs[p].state = "done")
    /\ [][/\ \A p \in DOMAIN procs :
              procs[p].state = "reaped" /\ procs'[p].state = "done" =>
                childProcess' = Null
          /\ childProcess' = Null =>
                LET st == getStatus([cp |-> childProcess', err |-> lastError',
                                     ps |-> procs', threw |-> FALSE])
                IN  ~st.running /\ st.pid = Null
          /\ childProcess = Null /\ childProcess' # Null =>
                /\ Len(procs') = Len(procs) + 1
                /\ childProcess' = Len(procs')]_vars

\* The first child ended before any request was made, so with no signal
\* sent to it; its exit watcher has run and there is no handle.
C18_Witness ==
    /\ served = 0
    /\ Quiet
    /\ procs # << >>
    /\ procs[1].state = "done"
    /\ childProcess = Null
    /\ ~getStatus(Mgr).running

\* The character right before or right after the first "=" of s is a space.
spaceAtEquals(s) ==
    /\ indexOf(s, "=") # -1
    /\ \/ charAt(s, indexOf(s, "=") - 1) = " "
       \/ charAt(s, indexOf(s, "=") + 1) = " "

\* What the two lines around the line under test decode to.
OtherLines == << << T("L"), T("w") >>, << T("M"), T("x") >> >>

\* C19 as stated: a line in which the character right before or right after
\* the first "=" is a space adds nothing to the decoded map, and the other
\* lines of the file are decoded.
C19_SkipsSpaceAtEquals ==
    codec.step = "decoded" /\ spaceAtEquals(codec.line) =>
      codec.out = OtherLines

\* C19 as amended: a line that, with the whitespace around it removed, has a
\* space right before or right after its first "=" adds nothing to the
\* decoded map, and the other lines of the file are decoded.
C19_SkipsSpaceAtEqualsTrimmed ==
    codec.step = "decoded" /\ spaceAtEquals(trim(codec.line)) =>
      codec.out = OtherLines

\* The file with the line "K = v" between L=w and M=x has been decoded: the
\* map has L and M and no K.
C19_Witness ==
    /\ codec.step = "decoded"
    /\ codec.line = << "K", " ", "=", " ", "v" >>
    /\ codec.out = OtherLines

\* The text with every backslash that stands right before a double quote
\* taken out.
RECURSIVE unescaped(_)
unescaped(s) ==
    IF s = << >> THEN << >>
    ELSE IF Len(s) >= 2 /\ s[1] = "\\" /\ s[2] = "\""
         THEN << "\"" >> \o unescaped(Tail(Tail(s)))
         ELSE << Head(s) >> \o unescaped(Tail(s))

\* The text ln is the line of the entry e: the key, "=", and then the value,
\* bare when it has no space, "=" or "#", and otherwise between double
\* quotes with a backslash before each of its double quotes and nothing
\* else added.
IsLineOf(ln, e) ==
    LET key == e[1]
        value == e[2]
        rest == substringFrom(ln, Len(key) + 1)
        inner == substring(rest, 1, Len(rest) - 1)
        special == \E k \in DOMAIN value : value[k] \in {" ", "=", "#"}
        quotes(t) == Cardinality({k \in DOMAIN t : t[k] = "\""})
    IN  /\ Len(ln) >= Len(key) + 1
        /\ substring(ln, 0, Len(key) + 1) = key \o << "=" >>
        /\ IF special
           THEN /\ Len(rest) >= 2
                /\ rest[1] = "\"" /\ rest[Len(rest)] = "\""
                /\ Len(inner) = Len(value) + quotes(value)
                /\ \A k \in DOMAIN inner :
                      inner[k] = "\"" => k > 1 /\ inner[k - 1] = "\\"
                /\ unescaped(inner) = value
           ELSE rest = value

\* C20: the content writeEnv writes has one line per entry of the map, in
\* the order of the entries, each the line of its entry; and the map
\* { A: "hello world" } is written as A="hello world" and read back as the
\* same map.
C20_EncodedLines ==
    /\ codec.step \in {"written", "read"} =>
         LET lines == splitLines(codec.file.content)
         IN  /\ Len(lines) = Len(codec.m)
             /\ \A j \in DOMAIN codec.m : IsLineOf(lines[j], codec.m[j])
    /\ codec.step \in {"written", "read"} /\ codec.m \in ExampleMaps =>
         codec.file.content =
           << "A", "=", "\"", "h", "e", "l", "l", "o", " ", "w", "o", "r",
              "l", "d", "\"" >>
    /\ codec.step = "read" /\ codec.m \in ExampleMaps => codec.out = codec.m

\* A map of two entries, the first value with a "#" and a double quote and
\* the second bare, has been written as two lines.
C20_Witness ==
    /\ codec.step = "written"
    /\ codec.m = << << T("K"), << "#", "\"" >> >>, << T("L"), << "a" >> >> >>
    /\ codec.file.content =
         << "K", "=", "\"", "#", "\\", "\"", "\"", "\n", "L", "=", "a" >>

\* C21: when the turn of the loop that makes an entry was reached over an
\* empty line, or a line of whitespace only, right before the declaration,
\* the description of the entry is empty.
C21_BlankLineClearsComments ==
    [][/\ codec.step = "lines" /\ codec'.step = "lines"
       /\ codec'.i = codec.i + 1
       /\ codec.i >= 1
       /\ trim(codec.lines[codec.i]) = << >>
       => \A k \in DOMAIN codec'.schema :
            \/ k \in DOMAIN codec.schema /\ codec'.schema[k] = codec.schema[k]
            \/ codec'.schema[k][2].description = << >>]_vars

\* The text t reads as KEY=value: it has an "=" with no space right before
\* or after the first one, and a key before it.
isPair(t) ==
    /\ indexOf(t, "=") # -1
    /\ ~spaceAtEquals(t)
    /\ trim(substring(t, 0, indexOf(t, "="))) # << >>

\* The text t has an "=" with no space right before or after the first one,
\* and no key before it.
isPairWithoutKey(t) ==
    /\ indexOf(t, "=") # -1
    /\ ~spaceAtEquals(t)
    /\ trim(substring(t, 0, indexOf(t, "="))) = << >>

pairKey(t) == trim(substring(t, 0, indexOf(t, "=")))

pairValue(t) == unquote(trim(substringFrom(t, indexOf(t, "=") + 1)))

\* The turn of the loop on codec'.line made the entry of key with the
\* pending comments as its description, and left no pending comments.
MadeEntry(key, value, commented) ==
    /\ codec'.schema =
         assign(codec.schema, key,
                [description |-> joinLines(codec.currentComments),
                 defaultValue |-> [null |-> value = << >>, text |-> value],
                 commented |-> commented])
    /\ codec'.currentComments = << >>

\* The turn of the loop on codec'.line made no entry and added the text to
\* the pending comments.
AddedComment(text) ==
    /\ codec'.schema = codec.schema
    /\ codec'.currentComments =
         IF text = << >> THEN codec.currentComments
         ELSE Append(codec.currentComments, text)

\* A turn of the loop of readEnvExample on a line that is not blank.
SchemaTurn ==
    /\ codec.step = "lines" /\ codec'.step = "lines"
    /\ codec'.i = codec.i + 1
    /\ trim(codec'.line) # << >>

\* C22 as stated: a line KEY=value makes an entry with commented false; a
\* "#" line whose remainder is KEY=value or a bare uppercase identifier
\* makes an entry with commented true; the description is the pending
\* comments joined by newline, defaultValue the unquoted value when it is
\* not empty, and no comments are pending after the line; every other "#"
\* line adds its text to the pending comments.
C22_OneEntryPerDeclaration ==
    [][SchemaTurn =>
         LET t == trim(codec'.line)
             rem == trim(substringFrom(t, 1))
         IN  /\ Head(t) # "#" /\ isPair(t) =>
                   MadeEntry(pairKey(t), pairValue(t), FALSE)
             /\ Head(t) = "#" /\ isPair(rem) =>
                   MadeEntry(pairKey(rem), pairValue(rem), TRUE)
             /\ Head(t) = "#" /\ ~isPair(rem) /\ isIdentifier(rem) =>
                   MadeEntry(rem, << >>, TRUE)
             /\ Head(t) = "#" /\ ~isPair(rem) /\ ~isIdentifier(rem) =>
                   AddedComment(rem)]_vars

\* C22 as amended: as stated, except that a "#" line whose remainder has an
\* "=" with no space next to it and no key before it makes no entry and
\* leaves no comments pending.
C22_OneEntryPerDeclarationWithKey ==
    [][SchemaTurn =>
         LET t == trim(codec'.line)
             rem == trim(substringFrom(t, 1))
         IN  /\ Head(t) # "#" /\ isPair(t) =>
                   MadeEntry(pairKey(t), pairValue(t), FALSE)
             /\ Head(t) = "#" /\ isPair(rem) =>
                   MadeEntry(pairKey(rem), pairValue(rem), TRUE)
             /\ Head(t) = "#" /\ ~isPair(rem) /\ isIdentifier(rem) =>
                   MadeEntry(rem, << >>, TRUE)
             /\ Head(t) = "#" /\ isPairWithoutKey(rem) =>
                   /\ codec'.schema = codec.schema
                   /\ codec'.currentComments = << >>
             /\ /\ Head(t) = "#"
                /\ ~isPair(rem) /\ ~isIdentifier(rem)
                /\ ~isPairWithoutKey(rem)
                => AddedComment(rem)]_vars

\* The file "# c", "# d", "# M" has been read: M is a commented entry
\* described by the two comment lines, and no comments are pending.
C22_Witness ==
    /\ codec.step = "lines"
    /\ codec.i = 3
    /\ codec.line = << "#", " ", "M" >>
    /\ codec.schema =
         << << << "M" >>,
               [description |-> << "c", "\n", "d" >>,
                defaultValue |-> [null |-> TRUE, text |-> << >>],
                commented |-> TRUE] >> >>
    /\ codec.currentComments = << >>

\* readEnvExample has nothing to read: no path to go by, no file at the
\* path, or a file without content.
NothingToRead ==
    \/ ~codec.args.exampleEnvPath /\ ~codec.args.envPath
    \/ ~codec.file.exists
    \/ codec.file.content = << >> /\ codec.args.readable

\* C23: with nothing to read, readEnvExample does not throw and returns the
\* empty mapping; and whenever it throws, the route answers with the empty
\* mapping.
C23_SchemaNeverFails ==
    /\ NothingToRead =>
         /\ codec.step # "threw"
         /\ codec.step \in {"lines", "returned"} => codec.schema = << >>
         /\ codec.step = "answered" => codec.out = << >>
    /\ codec.step = "answered" /\ ~NothingToRead /\ ~codec.args.readable =>
         codec.out = << >>

\* The route has answered with the empty mapping where only envPath was
\* given and there is no example file next to it.
C23_Witness ==
    /\ codec.step = "answered"
    /\ ~codec.args.exampleEnvPath /\ codec.args.envPath
    /\ ~codec.file.exists
    /\ codec.out = << >>

\* C24: the child a step spawns has, for every key of the config file as
\* decoded at that step, the value of the file, for every other variable of
\* the manager the manager's value, and nothing else.
C24_ChildEnvironment ==
    [][Len(procs') = Len(procs) + 1 =>
         LET env == procs'[Len(procs')].env
             cfg == readEnv(envFile')
         IN  /\ keySet(env) = keySet(ProcessEnv) \cup keySet(cfg)
             /\ \A k \in keySet(cfg) : valueOf(env, k) = valueOf(cfg, k)
             /\ \A k \in keySet(ProcessEnv) \ keySet(cfg) :
                   valueOf(env, k) = valueOf(ProcessEnv, k)]_vars

\* A child spawned by a restart runs with A from the file, where the
\* manager has another value for A, with B as the request set it and with
\* the manager's H.
C24_Witness ==
    \E p \in DOMAIN procs :
        /\ p >= 2
        /\ procs[p].state = "alive"
        /\ entries(procs[p].env) =
             { << T("H"), T("h") >>, << T("A"), T("1") >>,
               << T("B"), T("3") >> }
        /\ valueOf(ProcessEnv, T("A")) = T("0")

\* The text v is wholly wrapped in a matching pair of quote characters.
wrapped(v) == Len(v) >= 2 /\ v[1] \in {"\"", "'"} /\ v[Len(v)] = v[1]

\* C25: the line K=value decodes to K with what is between the quotes when
\* the trimmed value is wholly wrapped in a matching pair of single or
\* double quotes, nothing unescaped, and with the trimmed value as it is
\* otherwise.
C25_MatchingQuotesStripped ==
    codec.step = "decoded" /\ codec.line \in QuotedLines =>
      LET v == trim(substringFrom(codec.line, 2))
      IN  /\ T("K") \in keySet(codec.out)
          /\ valueOf(codec.out, T("K")) =
                IF wrapped(v) THEN substring(v, 1, Len(v) - 1) ELSE v

C27_EveryCallCompletes ==
    /\ \A i \in Slots : (reqs[i].pc # "idle") ~> (reqs[i].pc = "done")
    /\ [][\A i \in Slots :
            /\ reqs[i].pc = "grace" /\ reqs'[i].pc # "grace" =>
                  reqs'[i].pc \in {"settle", "done"} /\ reqs'[i].via = "grace"
            /\ reqs[i].pc = "kgrace" /\ reqs'[i].pc # "kgrace" =>
                  reqs'[i].pc = "done" /\ childProcess' = Null]_vars
    /\ [](\A i \in Slots :
            reqs[i].pc = "done" /\ reqs[i].method \in {"POST", "PATCH"} =>
              \/ /\ reqs[i].resp.status = 200
                 /\ reqs[i].resp.success
              \/ /\ reqs[i].resp.status = 400
                 /\ ~reqs[i].resp.success
                 /\ ~reqs[i].resp.error.null)

\* A request has its response after a termination that went through
\* SIGKILL and the grace period (the child ignored SIGTERM), with a child
\* that could not be spawned afterwards.
C27_Witness ==
    \E i \in Slots :
        /\ reqs[i].pc = "done"
        /\ reqs[i].method \in {"POST", "PATCH"}
        /\ reqs[i].via = "grace"
        /\ reqs[i].spawnFailed
        /\ reqs[i].resp.status = 200

\* The map of the lines L=w and M=x with the line key=value between them.
WithLine(key, value) ==
    IF key = T("L") THEN << << key, value >>, << T("M"), T("x") >> >>
    ELSE IF key = T("M") THEN << << T("L"), T("w") >>, << key, value >> >>
    ELSE << << T("L"), T("w") >>, << key, value >>, << T("M"), T("x") >> >>

\* The text t is a line decoding passes over: blank, a comment, without
\* "=", or with nothing before the "=".
passedOver(t) ==
    \/ t = << >>
    \/ Head(t) = "#"
    \/ indexOf(t, "=") = -1
    \/ trim(substring(t, 0, indexOf(t, "="))) = << >>

plain(v) ==
    v = << >> \/ (v[1] \notin {"\"", "'"} /\ v[Len(v)] \notin {"\"", "'"})

Reserved(pathname, options) ==
    \/ /\ Len(pathname) > 5
       /\ SubSeq(pathname, 1, 5) = << "/", "process-pastry", "/", "api", "/" >>
    \/ pathname = options.htmlRoute
    \/ /\ Len(pathname) > Len(options.htmlRoute)
       /\ SubSeq(pathname, 1, Len(options.htmlRoute)) = options.htmlRoute
       /\ pathname[Len(options.htmlRoute) + 1] = "/"

\* C29: a request for a reserved path is not forwarded; a request is
\* forwarded exactly when the proxy is set, no route has its path, the path
\* is not reserved and the request carries the credentials; and a forwarded
\* request whose fetch fails is answered with 502.  No request of these
\* touches the manager.
C29_ProxyOnlyUnmatched ==
    \A i \in Slots :
        reqs[i].pc = "done" /\ reqs[i].method = "GET" =>
          LET r == reqs[i]
          IN  /\ Reserved(r.pathname, r.options) => r.via # "proxy"
              /\ r.via = "proxy" <=>
                    /\ r.options.proxyPort
                    /\ r.pathname \notin routes(r.options)
                    /\ ~Reserved(r.pathname, r.options)
                    /\ r.creds
              /\ r.via = "proxy" /\ r.upstream = Null => r.resp.status = 502
              /\ r.via = "proxy" /\ r.upstream # Null =>
                    r.resp.status = r.upstream
              /\ r.old = childProcess

\* A request for /process-pastry/api/other, which no route has, came with
\* the credentials to a server with the proxy set, and was answered 404
\* without being forwarded.
C29_Witness ==
    \E i \in Slots :
        /\ reqs[i].pc = "done" /\ reqs[i].method = "GET"
        /\ reqs[i].pathname =
             << "/", "process-pastry", "/", "api", "/", "other" >>
        /\ reqs[i].options.proxyPort
        /\ reqs[i].creds
        /\ reqs[i].via = "fetch"
        /\ reqs[i].resp.status = 404

\* C30: a step that clears the handle while it holds the process P is the
\* exit watcher of P, or a step of a kill() that was called with P in the
\* handle; and the newest child, while alive, is reported as running.
C30_HandleClearedByOwner ==
    [][/\ \A P \in DOMAIN procs :
            childProcess = P /\ childProcess' = Null =>
              \/ procs[P].state = "reaped" /\ procs'[P].state = "done"
              \/ \E i \in Slots :
                    /\ reqs[i].pc \in {"poll", "grace", "kpoll", "kgrace"}
                    /\ reqs[i].pid = P
                    /\ reqs'[i] # reqs[i]
              \/ \E i \in Slots :
                    /\ reqs[i].pc = "idle" /\ reqs'[i].pc # "idle"
                    /\ reqs'[i].old = P
       /\ \A p \in DOMAIN procs' :
            procs'[p].state = "alive" /\ p = Len(procs') =>
              getStatus([cp |-> childProcess', err |-> lastError',
                         ps |-> procs', threw |-> FALSE]).running]_vars

\* C31: a POST or PATCH of the config route that answers success false
\* answers in the step in which it arrived, having left the config file as
\* it was and having sent no signal and spawned no child.
C31_FailureLeavesNoTrace ==
    [][\A i \in Slots :
         /\ reqs[i].pc # "done" /\ reqs'[i].pc = "done"
         /\ reqs'[i].method \in {"POST", "PATCH"}
         /\ reqs'[i].resp.status = 400
         /\ ~reqs'[i].resp.success
         => /\ reqs[i].pc = "idle"
            /\ envFile' = envFile
            /\ UNCHANGED << childProcess, lastError, procs >>]_vars

\* The handlers that have written the file, and those of them that are
\* PATCH requests.
Writers == {i \in Slots : reqs[i].wrote.exists}
Patchers == {i \in Writers : reqs[i].method = "PATCH"}

\* C32: a PATCH reads, merges and writes the file in one step, so, requests
\* overlapping or not and whatever their restarts are doing, the written
\* config has every key of the patch with the patch's value, and the keys
\* of every other patch with a disjoint key set keep the values that patch
\* gave them; nothing but the write of a request changes the file.
C32_NoLostUpdate ==
    [][/\ \A i \in Slots :
            Writes(i) /\ reqs'[i].method = "PATCH" =>
              LET c == readEnv(envFile)
                  after == readEnv(envFile')
                  p == reqs'[i].body
              IN  /\ \A k \in keySet(p) :
                        k \in keySet(after) /\ valueOf(after, k) = valueOf(p, k)
                  /\ \A j \in Patchers \ {i} :
                        keySet(reqs[j].body) \cap keySet(p) = {} =>
                          \A k \in keySet(reqs[j].body) :
                            (k \in keySet(c)
                                /\ valueOf(c, k) = valueOf(reqs[j].body, k))
                              => (k \in keySet(after)
                                    /\ valueOf(after, k) = valueOf(c, k))
       /\ envFile' # envFile => \E i \in Slots : Writes(i)]_vars

\* C33: the config stored by a POST has no key that is not a key of the
\* body, the config stored by a PATCH none that is neither a key of the
\* config before nor a key of the body, and the child a POST spawns has no
\* variable that is neither the manager's nor a key of the body.
C33_NoInjectedVariable ==
    [][\A i \in Slots :
         /\ Writes(i) /\ reqs'[i].method = "POST" =>
              keySet(readEnv(envFile')) \subseteq keySet(reqs'[i].body)
         /\ Writes(i) /\ reqs'[i].method = "PATCH" =>
              keySet(readEnv(envFile')) \subseteq
                keySet(readEnv(envFile)) \cup keySet(reqs'[i].body)
         /\ Spawns(i) /\ reqs'[i].method = "POST" =>
              keySet(procs'[reqs'[i].new].env) \subseteq
                keySet(ProcessEnv) \cup keySet(reqs'[i].body)]_vars

\* C34 as stated: a line that is not a comment and has a space right before
\* or right after its first "=" makes no entry and leaves no comments
\* pending; a "#" line whose remainder has a space right before or right
\* after its first "=" makes no entry and adds the remainder to the pending
\* comments.
C34_SpaceAtEqualsLines ==
    [][SchemaTurn =>
         LET t == trimStart(codec'.line)
             rem == trimStart(substringFrom(t, 1))
         IN  /\ Head(t) # "#" /\ spaceAtEquals(t) =>
                   /\ codec'.schema = codec.schema
                   /\ codec'.currentComments = << >>
             /\ Head(t) = "#" /\ spaceAtEquals(rem) =>
                   AddedComment(trim(rem))]_vars

\* C34 as amended: the same, the space looked for in the line with the
\* whitespace around it removed, and in the remainder of a "#" line with
\* the whitespace around it removed.
C34_SpaceAtEqualsLinesTrimmed ==
    [][SchemaTurn =>
         LET t == trim(codec'.line)
             rem == trim(substringFrom(t, 1))
         IN  /\ Head(t) # "#" /\ spaceAtEquals(t) =>
                   /\ codec'.schema = codec.schema
                   /\ codec'.currentComments = << >>
             /\ Head(t) = "#" /\ spaceAtEquals(rem) =>
                   AddedComment(rem)]_vars

\* The file "# c", "K = v", "# L = w" has been read: no entry was made,
\* the comment c was dropped at the second line, and the text of the third
\* line is the one pending comment.
C34_Witness ==
    /\ codec.step = "lines"
    /\ codec.i = 3
    /\ codec.lines = << << "#", " ", "c" >>,
                        << "K", " ", "=", " ", "v" >>,
                        << "#", " ", "L", " ", "=", " ", "w" >> >>
    /\ codec.schema = << >>
    /\ codec.currentComments = << << "L", " ", "=", " ", "w" >> >>

\* What a step of a call of start() by handler i does to the manager and
\* to the position of the call: the first step from the call to the first
\* sleep of kill() or to the spawn, a pass of the loop of kill(), SIGKILL
\* at the timeout, the spawn after the grace sleep.
Spawned(i, M) ==
    \E ok \in BOOLEAN :
        /\ Mgr' = spawnChild(M, envFile, ok)
        /\ reqs'[i].pc = "done"
        /\ reqs'[i].new = (IF ok THEN Len(procs') ELSE Null)

StepOfStart(i) ==
    \/ /\ reqs[i].pc = "idle"
       /\ LET k == startBegin(Mgr)
          IN  IF k.done THEN Spawned(i, k.m)
              ELSE /\ Mgr' = k.m
                   /\ reqs'[i].pc = "poll" /\ reqs'[i].pid = k.pid
    \/ /\ reqs[i].pc = "poll"
       /\ \/ /\ Mgr' = sendSignal(Mgr, reqs[i].pid, "SIGKILL")
             /\ reqs'[i].pc = "grace"
          \/ LET k == pollOnce(Mgr, reqs[i].pid)
             IN  IF k.done THEN Spawned(i, k.m)
                 ELSE Mgr' = k.m /\ reqs'[i].pc = "poll"
    \/ /\ reqs[i].pc = "grace"
       /\ Spawned(i, killEnd(Mgr))

\* C35: every step of a call of restart(), from any state of the manager
\* and whatever the children do, is the step start() takes there: the
\* same signals sent, the same spawn, the same handle and error buffer.
C35_RestartIsStart ==
    [][\A i \in Slots :
         /\ reqs'[i].method = "RESTART"
         /\ reqs'[i] # reqs[i]
         => StepOfStart(i)]_vars

\* A restart() found the child running, sent SIGTERM, slept in the loop of
\* kill(), saw the child gone, spawned the next child and returned.
C35_Witness ==
    \E i \in Slots :
        /\ reqs[i].method = "RESTART"
        /\ reqs[i].pc = "done"
        /\ reqs[i].old # Null
        /\ procs[reqs[i].old].term
        /\ reqs[i].new # Null
        /\ childProcess = reqs[i].new

\* C36: once a config was loaded or saved, after every handler of the UI
\* hasUnsavedChanges is true exactly when envVars is not the config last
\* loaded from or saved to the server; and it is false right after a load
\* or a save that succeeded.
C36_UnsavedChangesFlag ==
    [][/\ ui'.phase = "ready" /\ ui'.hasSynced =>
            (ui'.hasUnsavedChanges <=> ui'.envVars # ui'.synced)
       /\ ui'.event \in {"load", "save"} /\ ui' # ui =>
            ~ui'.hasUnsavedChanges]_vars

\* C37: a click on Delete in the row of a variable leaves envVars without
\* the key of that variable, whatever its value was.
C37_DeleteRemovesKey ==
    [][ui'.event = "delete" /\ ui' # ui =>
         ui'.key \notin DOMAIN ui'.envVars]_vars

=============================================================================
